---- MODULE Spec2Model ----
(***************************************************************************)
(* Model of the MEP harvesting pipeline (get-eu-mp.py) and of the          *)
(* override-merge step (apply_meps_overrides.py).                          *)
(*                                                                         *)
(* A Python str is the sequence of its characters.  A printable ASCII      *)
(* character is the one-character string of itself; tab, line feed, form   *)
(* feed and carriage return are "\t", "\n", "\f" and "\r"; every other     *)
(* character is the string of its code point, "U+" and four to six upper   *)
(* case hexadecimal digits ("U+000B", "U+00A0", "U+00C9", "U+1D7CE"). The  *)
(* character classes are those of the Unicode database of CPython 3.11     *)
(* (Unicode 14.0).  Python's None is the value None below, which is no     *)
(* str because "None" is no character.  A dict is a sequence of            *)
(* <<key, value>> pairs in insertion order.                                *)
(***************************************************************************)
EXTENDS Integers, Sequences, FiniteSets, TLC

VARIABLES
    pc,            \* position of the running program
    only_with_x,   \* get-eu-mp.py: args.only_with_x
    roster,        \* hrefs of the <a href> tags of the roster page, in document order
    meps_meta,     \* scrape_all_meps: the dict returned by discovery
    i,             \* scrape_all_meps: number of identifiers the loop has taken
    fetched,       \* the non-None values parse_mep_profile has returned, in order
    results,       \* scrape_all_meps: results
    trace,         \* observable effects in order: GET, sleep, prints
    file,          \* the output CSV file
    page,          \* parse: the profile page handed to parse_mep_profile
    mep,           \* parse: what parse_mep_profile returned
    block_el,      \* parse: the country/party element handed to the splitter
    block_out,     \* parse: country, national_party and raw block it produced
    base_data,     \* merge: base_data (list of objects)
    base0,         \* merge: base_data as loaded
    overrides,     \* merge: overrides (dict keyed by MEP id)
    index,         \* merge: index from id to position in base_data
    ov_pos,        \* merge: number of override entries the loop has taken
    out_file       \* merge: what was dumped to OUTPUT_FILE

vars == <<pc, only_with_x, roster, meps_meta, i, fetched, results, trace,
          file, page, mep, block_el, block_out, base_data, base0, overrides,
          index, ov_pos, out_file>>

None == <<"None">>

\* ------------------------------------------------------------------ bounds

MaxLinks == 3
MaxBlockLen == 5
MaxNodes == 3
MaxBase == 2
MaxOverrides == 2

\* ------------------------------------------------------------------ str

\* "0".."9", "A".."Z" and "a".."z" in order
ASCII_DIGITS == <<"0", "1", "2", "3", "4", "5", "6", "7", "8", "9">>
ASCII_UPPER == <<"A", "B", "C", "D", "E", "F", "G", "H", "I", "J", "K", "L", "M",
                 "N", "O", "P", "Q", "R", "S", "T", "U", "V", "W", "X", "Y", "Z">>
ASCII_LOWER == <<"a", "b", "c", "d", "e", "f", "g", "h", "i", "j", "k", "l", "m",
                 "n", "o", "p", "q", "r", "s", "t", "u", "v", "w", "x", "y", "z">>

Range(s) == {s[j] : j \in 1..Len(s)}

AsciiDigits == Range(ASCII_DIGITS)
AsciiLetters == Range(ASCII_UPPER) \cup Range(ASCII_LOWER)
HexDigits == AsciiDigits \cup {"a", "b", "c", "d", "e", "f", "A", "B", "C", "D", "E", "F"}

\* the characters str.strip() and str.split() take for whitespace (c.isspace())
WhiteSpace ==
    { "\t", "\n", "U+000B", "\f", "\r", "U+001C", "U+001D", "U+001E",
      "U+001F", " ", "U+0085", "U+00A0", "U+1680", "U+2000", "U+2001", "U+2002",
      "U+2003", "U+2004", "U+2005", "U+2006", "U+2007", "U+2008", "U+2009", "U+200A",
      "U+2028", "U+2029", "U+202F", "U+205F", "U+3000" }

\* the characters \d matches in a str pattern (Unicode category Nd)
Digits ==
    { "0", "1", "2", "3", "4", "5", "6", "7",
      "8", "9", "U+0660", "U+0661", "U+0662", "U+0663", "U+0664", "U+0665",
      "U+0666", "U+0667", "U+0668", "U+0669", "U+06F0", "U+06F1", "U+06F2", "U+06F3",
      "U+06F4", "U+06F5", "U+06F6", "U+06F7", "U+06F8", "U+06F9", "U+07C0", "U+07C1",
      "U+07C2", "U+07C3", "U+07C4", "U+07C5", "U+07C6", "U+07C7", "U+07C8", "U+07C9",
      "U+0966", "U+0967", "U+0968", "U+0969", "U+096A", "U+096B", "U+096C", "U+096D",
      "U+096E", "U+096F", "U+09E6", "U+09E7", "U+09E8", "U+09E9", "U+09EA", "U+09EB",
      "U+09EC", "U+09ED", "U+09EE", "U+09EF", "U+0A66", "U+0A67", "U+0A68", "U+0A69",
      "U+0A6A", "U+0A6B", "U+0A6C", "U+0A6D", "U+0A6E", "U+0A6F", "U+0AE6", "U+0AE7",
      "U+0AE8", "U+0AE9", "U+0AEA", "U+0AEB", "U+0AEC", "U+0AED", "U+0AEE", "U+0AEF",
      "U+0B66", "U+0B67", "U+0B68", "U+0B69", "U+0B6A", "U+0B6B", "U+0B6C", "U+0B6D",
      "U+0B6E", "U+0B6F", "U+0BE6", "U+0BE7", "U+0BE8", "U+0BE9", "U+0BEA", "U+0BEB",
      "U+0BEC", "U+0BED", "U+0BEE", "U+0BEF", "U+0C66", "U+0C67", "U+0C68", "U+0C69",
      "U+0C6A", "U+0C6B", "U+0C6C", "U+0C6D", "U+0C6E", "U+0C6F", "U+0CE6", "U+0CE7",
      "U+0CE8", "U+0CE9", "U+0CEA", "U+0CEB", "U+0CEC", "U+0CED", "U+0CEE", "U+0CEF",
      "U+0D66", "U+0D67", "U+0D68", "U+0D69", "U+0D6A", "U+0D6B", "U+0D6C", "U+0D6D",
      "U+0D6E", "U+0D6F", "U+0DE6", "U+0DE7", "U+0DE8", "U+0DE9", "U+0DEA", "U+0DEB",
      "U+0DEC", "U+0DED", "U+0DEE", "U+0DEF", "U+0E50", "U+0E51", "U+0E52", "U+0E53",
      "U+0E54", "U+0E55", "U+0E56", "U+0E57", "U+0E58", "U+0E59", "U+0ED0", "U+0ED1",
      "U+0ED2", "U+0ED3", "U+0ED4", "U+0ED5", "U+0ED6", "U+0ED7", "U+0ED8", "U+0ED9",
      "U+0F20", "U+0F21", "U+0F22", "U+0F23", "U+0F24", "U+0F25", "U+0F26", "U+0F27",
      "U+0F28", "U+0F29", "U+1040", "U+1041", "U+1042", "U+1043", "U+1044", "U+1045",
      "U+1046", "U+1047", "U+1048", "U+1049", "U+1090", "U+1091", "U+1092", "U+1093",
      "U+1094", "U+1095", "U+1096", "U+1097", "U+1098", "U+1099", "U+17E0", "U+17E1",
      "U+17E2", "U+17E3", "U+17E4", "U+17E5", "U+17E6", "U+17E7", "U+17E8", "U+17E9",
      "U+1810", "U+1811", "U+1812", "U+1813", "U+1814", "U+1815", "U+1816", "U+1817",
      "U+1818", "U+1819", "U+1946", "U+1947", "U+1948", "U+1949", "U+194A", "U+194B",
      "U+194C", "U+194D", "U+194E", "U+194F", "U+19D0", "U+19D1", "U+19D2", "U+19D3",
      "U+19D4", "U+19D5", "U+19D6", "U+19D7", "U+19D8", "U+19D9", "U+1A80", "U+1A81",
      "U+1A82", "U+1A83", "U+1A84", "U+1A85", "U+1A86", "U+1A87", "U+1A88", "U+1A89",
      "U+1A90", "U+1A91", "U+1A92", "U+1A93", "U+1A94", "U+1A95", "U+1A96", "U+1A97",
      "U+1A98", "U+1A99", "U+1B50", "U+1B51", "U+1B52", "U+1B53", "U+1B54", "U+1B55",
      "U+1B56", "U+1B57", "U+1B58", "U+1B59", "U+1BB0", "U+1BB1", "U+1BB2", "U+1BB3",
      "U+1BB4", "U+1BB5", "U+1BB6", "U+1BB7", "U+1BB8", "U+1BB9", "U+1C40", "U+1C41",
      "U+1C42", "U+1C43", "U+1C44", "U+1C45", "U+1C46", "U+1C47", "U+1C48", "U+1C49",
      "U+1C50", "U+1C51", "U+1C52", "U+1C53", "U+1C54", "U+1C55", "U+1C56", "U+1C57",
      "U+1C58", "U+1C59", "U+A620", "U+A621", "U+A622", "U+A623", "U+A624", "U+A625",
      "U+A626", "U+A627", "U+A628", "U+A629", "U+A8D0", "U+A8D1", "U+A8D2", "U+A8D3",
      "U+A8D4", "U+A8D5", "U+A8D6", "U+A8D7", "U+A8D8", "U+A8D9", "U+A900", "U+A901",
      "U+A902", "U+A903", "U+A904", "U+A905", "U+A906", "U+A907", "U+A908", "U+A909",
      "U+A9D0", "U+A9D1", "U+A9D2", "U+A9D3", "U+A9D4", "U+A9D5", "U+A9D6", "U+A9D7",
      "U+A9D8", "U+A9D9", "U+A9F0", "U+A9F1", "U+A9F2", "U+A9F3", "U+A9F4", "U+A9F5",
      "U+A9F6", "U+A9F7", "U+A9F8", "U+A9F9", "U+AA50", "U+AA51", "U+AA52", "U+AA53",
      "U+AA54", "U+AA55", "U+AA56", "U+AA57", "U+AA58", "U+AA59", "U+ABF0", "U+ABF1",
      "U+ABF2", "U+ABF3", "U+ABF4", "U+ABF5", "U+ABF6", "U+ABF7", "U+ABF8", "U+ABF9",
      "U+FF10", "U+FF11", "U+FF12", "U+FF13", "U+FF14", "U+FF15", "U+FF16", "U+FF17",
      "U+FF18", "U+FF19", "U+104A0", "U+104A1", "U+104A2", "U+104A3", "U+104A4", "U+104A5",
      "U+104A6", "U+104A7", "U+104A8", "U+104A9", "U+10D30", "U+10D31", "U+10D32", "U+10D33",
      "U+10D34", "U+10D35", "U+10D36", "U+10D37", "U+10D38", "U+10D39", "U+11066", "U+11067",
      "U+11068", "U+11069", "U+1106A", "U+1106B", "U+1106C", "U+1106D", "U+1106E", "U+1106F",
      "U+110F0", "U+110F1", "U+110F2", "U+110F3", "U+110F4", "U+110F5", "U+110F6", "U+110F7",
      "U+110F8", "U+110F9", "U+11136", "U+11137", "U+11138", "U+11139", "U+1113A", "U+1113B",
      "U+1113C", "U+1113D", "U+1113E", "U+1113F", "U+111D0", "U+111D1", "U+111D2", "U+111D3",
      "U+111D4", "U+111D5", "U+111D6", "U+111D7", "U+111D8", "U+111D9", "U+112F0", "U+112F1",
      "U+112F2", "U+112F3", "U+112F4", "U+112F5", "U+112F6", "U+112F7", "U+112F8", "U+112F9",
      "U+11450", "U+11451", "U+11452", "U+11453", "U+11454", "U+11455", "U+11456", "U+11457",
      "U+11458", "U+11459", "U+114D0", "U+114D1", "U+114D2", "U+114D3", "U+114D4", "U+114D5",
      "U+114D6", "U+114D7", "U+114D8", "U+114D9", "U+11650", "U+11651", "U+11652", "U+11653",
      "U+11654", "U+11655", "U+11656", "U+11657", "U+11658", "U+11659", "U+116C0", "U+116C1",
      "U+116C2", "U+116C3", "U+116C4", "U+116C5", "U+116C6", "U+116C7", "U+116C8", "U+116C9",
      "U+11730", "U+11731", "U+11732", "U+11733", "U+11734", "U+11735", "U+11736", "U+11737",
      "U+11738", "U+11739", "U+118E0", "U+118E1", "U+118E2", "U+118E3", "U+118E4", "U+118E5",
      "U+118E6", "U+118E7", "U+118E8", "U+118E9", "U+11950", "U+11951", "U+11952", "U+11953",
      "U+11954", "U+11955", "U+11956", "U+11957", "U+11958", "U+11959", "U+11C50", "U+11C51",
      "U+11C52", "U+11C53", "U+11C54", "U+11C55", "U+11C56", "U+11C57", "U+11C58", "U+11C59",
      "U+11D50", "U+11D51", "U+11D52", "U+11D53", "U+11D54", "U+11D55", "U+11D56", "U+11D57",
      "U+11D58", "U+11D59", "U+11DA0", "U+11DA1", "U+11DA2", "U+11DA3", "U+11DA4", "U+11DA5",
      "U+11DA6", "U+11DA7", "U+11DA8", "U+11DA9", "U+16A60", "U+16A61", "U+16A62", "U+16A63",
      "U+16A64", "U+16A65", "U+16A66", "U+16A67", "U+16A68", "U+16A69", "U+16AC0", "U+16AC1",
      "U+16AC2", "U+16AC3", "U+16AC4", "U+16AC5", "U+16AC6", "U+16AC7", "U+16AC8", "U+16AC9",
      "U+16B50", "U+16B51", "U+16B52", "U+16B53", "U+16B54", "U+16B55", "U+16B56", "U+16B57",
      "U+16B58", "U+16B59", "U+1D7CE", "U+1D7CF", "U+1D7D0", "U+1D7D1", "U+1D7D2", "U+1D7D3",
      "U+1D7D4", "U+1D7D5", "U+1D7D6", "U+1D7D7", "U+1D7D8", "U+1D7D9", "U+1D7DA", "U+1D7DB",
      "U+1D7DC", "U+1D7DD", "U+1D7DE", "U+1D7DF", "U+1D7E0", "U+1D7E1", "U+1D7E2", "U+1D7E3",
      "U+1D7E4", "U+1D7E5", "U+1D7E6", "U+1D7E7", "U+1D7E8", "U+1D7E9", "U+1D7EA", "U+1D7EB",
      "U+1D7EC", "U+1D7ED", "U+1D7EE", "U+1D7EF", "U+1D7F0", "U+1D7F1", "U+1D7F2", "U+1D7F3",
      "U+1D7F4", "U+1D7F5", "U+1D7F6", "U+1D7F7", "U+1D7F8", "U+1D7F9", "U+1D7FA", "U+1D7FB",
      "U+1D7FC", "U+1D7FD", "U+1D7FE", "U+1D7FF", "U+1E140", "U+1E141", "U+1E142", "U+1E143",
      "U+1E144", "U+1E145", "U+1E146", "U+1E147", "U+1E148", "U+1E149", "U+1E2F0", "U+1E2F1",
      "U+1E2F2", "U+1E2F3", "U+1E2F4", "U+1E2F5", "U+1E2F6", "U+1E2F7", "U+1E2F8", "U+1E2F9",
      "U+1E950", "U+1E951", "U+1E952", "U+1E953", "U+1E954", "U+1E955", "U+1E956", "U+1E957",
      "U+1E958", "U+1E959", "U+1FBF0", "U+1FBF1", "U+1FBF2", "U+1FBF3", "U+1FBF4", "U+1FBF5",
      "U+1FBF6", "U+1FBF7", "U+1FBF8", "U+1FBF9" }

\* the characters with c.isupper() (Unicode property Uppercase)
UpperCase ==
    { "A", "B", "C", "D", "E", "F", "G", "H",
      "I", "J", "K", "L", "M", "N", "O", "P",
      "Q", "R", "S", "T", "U", "V", "W", "X",
      "Y", "Z", "U+00C0", "U+00C1", "U+00C2", "U+00C3", "U+00C4", "U+00C5",
      "U+00C6", "U+00C7", "U+00C8", "U+00C9", "U+00CA", "U+00CB", "U+00CC", "U+00CD",
      "U+00CE", "U+00CF", "U+00D0", "U+00D1", "U+00D2", "U+00D3", "U+00D4", "U+00D5",
      "U+00D6", "U+00D8", "U+00D9", "U+00DA", "U+00DB", "U+00DC", "U+00DD", "U+00DE",
      "U+0100", "U+0102", "U+0104", "U+0106", "U+0108", "U+010A", "U+010C", "U+010E",
      "U+0110", "U+0112", "U+0114", "U+0116", "U+0118", "U+011A", "U+011C", "U+011E",
      "U+0120", "U+0122", "U+0124", "U+0126", "U+0128", "U+012A", "U+012C", "U+012E",
      "U+0130", "U+0132", "U+0134", "U+0136", "U+0139", "U+013B", "U+013D", "U+013F",
      "U+0141", "U+0143", "U+0145", "U+0147", "U+014A", "U+014C", "U+014E", "U+0150",
      "U+0152", "U+0154", "U+0156", "U+0158", "U+015A", "U+015C", "U+015E", "U+0160",
      "U+0162", "U+0164", "U+0166", "U+0168", "U+016A", "U+016C", "U+016E", "U+0170",
      "U+0172", "U+0174", "U+0176", "U+0178", "U+0179", "U+017B", "U+017D", "U+0181",
      "U+0182", "U+0184", "U+0186", "U+0187", "U+0189", "U+018A", "U+018B", "U+018E",
      "U+018F", "U+0190", "U+0191", "U+0193", "U+0194", "U+0196", "U+0197", "U+0198",
      "U+019C", "U+019D", "U+019F", "U+01A0", "U+01A2", "U+01A4", "U+01A6", "U+01A7",
      "U+01A9", "U+01AC", "U+01AE", "U+01AF", "U+01B1", "U+01B2", "U+01B3", "U+01B5",
      "U+01B7", "U+01B8", "U+01BC", "U+01C4", "U+01C7", "U+01CA", "U+01CD", "U+01CF",
      "U+01D1", "U+01D3", "U+01D5", "U+01D7", "U+01D9", "U+01DB", "U+01DE", "U+01E0",
      "U+01E2", "U+01E4", "U+01E6", "U+01E8", "U+01EA", "U+01EC", "U+01EE", "U+01F1",
      "U+01F4", "U+01F6", "U+01F7", "U+01F8", "U+01FA", "U+01FC", "U+01FE", "U+0200",
      "U+0202", "U+0204", "U+0206", "U+0208", "U+020A", "U+020C", "U+020E", "U+0210",
      "U+0212", "U+0214", "U+0216", "U+0218", "U+021A", "U+021C", "U+021E", "U+0220",
      "U+0222", "U+0224", "U+0226", "U+0228", "U+022A", "U+022C", "U+022E", "U+0230",
      "U+0232", "U+023A", "U+023B", "U+023D", "U+023E", "U+0241", "U+0243", "U+0244",
      "U+0245", "U+0246", "U+0248", "U+024A", "U+024C", "U+024E", "U+0370", "U+0372",
      "U+0376", "U+037F", "U+0386", "U+0388", "U+0389", "U+038A", "U+038C", "U+038E",
      "U+038F", "U+0391", "U+0392", "U+0393", "U+0394", "U+0395", "U+0396", "U+0397",
      "U+0398", "U+0399", "U+039A", "U+039B", "U+039C", "U+039D", "U+039E", "U+039F",
      "U+03A0", "U+03A1", "U+03A3", "U+03A4", "U+03A5", "U+03A6", "U+03A7", "U+03A8",
      "U+03A9", "U+03AA", "U+03AB", "U+03CF", "U+03D2", "U+03D3", "U+03D4", "U+03D8",
      "U+03DA", "U+03DC", "U+03DE", "U+03E0", "U+03E2", "U+03E4", "U+03E6", "U+03E8",
      "U+03EA", "U+03EC", "U+03EE", "U+03F4", "U+03F7", "U+03F9", "U+03FA", "U+03FD",
      "U+03FE", "U+03FF", "U+0400", "U+0401", "U+0402", "U+0403", "U+0404", "U+0405",
      "U+0406", "U+0407", "U+0408", "U+0409", "U+040A", "U+040B", "U+040C", "U+040D",
      "U+040E", "U+040F", "U+0410", "U+0411", "U+0412", "U+0413", "U+0414", "U+0415",
      "U+0416", "U+0417", "U+0418", "U+0419", "U+041A", "U+041B", "U+041C", "U+041D",
      "U+041E", "U+041F", "U+0420", "U+0421", "U+0422", "U+0423", "U+0424", "U+0425",
      "U+0426", "U+0427", "U+0428", "U+0429", "U+042A", "U+042B", "U+042C", "U+042D",
      "U+042E", "U+042F", "U+0460", "U+0462", "U+0464", "U+0466", "U+0468", "U+046A",
      "U+046C", "U+046E", "U+0470", "U+0472", "U+0474", "U+0476", "U+0478", "U+047A",
      "U+047C", "U+047E", "U+0480", "U+048A", "U+048C", "U+048E", "U+0490", "U+0492",
      "U+0494", "U+0496", "U+0498", "U+049A", "U+049C", "U+049E", "U+04A0", "U+04A2",
      "U+04A4", "U+04A6", "U+04A8", "U+04AA", "U+04AC", "U+04AE", "U+04B0", "U+04B2",
      "U+04B4", "U+04B6", "U+04B8", "U+04BA", "U+04BC", "U+04BE", "U+04C0", "U+04C1",
      "U+04C3", "U+04C5", "U+04C7", "U+04C9", "U+04CB", "U+04CD", "U+04D0", "U+04D2",
      "U+04D4", "U+04D6", "U+04D8", "U+04DA", "U+04DC", "U+04DE", "U+04E0", "U+04E2",
      "U+04E4", "U+04E6", "U+04E8", "U+04EA", "U+04EC", "U+04EE", "U+04F0", "U+04F2",
      "U+04F4", "U+04F6", "U+04F8", "U+04FA", "U+04FC", "U+04FE", "U+0500", "U+0502",
      "U+0504", "U+0506", "U+0508", "U+050A", "U+050C", "U+050E", "U+0510", "U+0512",
      "U+0514", "U+0516", "U+0518", "U+051A", "U+051C", "U+051E", "U+0520", "U+0522",
      "U+0524", "U+0526", "U+0528", "U+052A", "U+052C", "U+052E", "U+0531", "U+0532",
      "U+0533", "U+0534", "U+0535", "U+0536", "U+0537", "U+0538", "U+0539", "U+053A",
      "U+053B", "U+053C", "U+053D", "U+053E", "U+053F", "U+0540", "U+0541", "U+0542",
      "U+0543", "U+0544", "U+0545", "U+0546", "U+0547", "U+0548", "U+0549", "U+054A",
      "U+054B", "U+054C", "U+054D", "U+054E", "U+054F", "U+0550", "U+0551", "U+0552",
      "U+0553", "U+0554", "U+0555", "U+0556", "U+10A0", "U+10A1", "U+10A2", "U+10A3",
      "U+10A4", "U+10A5", "U+10A6", "U+10A7", "U+10A8", "U+10A9", "U+10AA", "U+10AB",
      "U+10AC", "U+10AD", "U+10AE", "U+10AF", "U+10B0", "U+10B1", "U+10B2", "U+10B3",
      "U+10B4", "U+10B5", "U+10B6", "U+10B7", "U+10B8", "U+10B9", "U+10BA", "U+10BB",
      "U+10BC", "U+10BD", "U+10BE", "U+10BF", "U+10C0", "U+10C1", "U+10C2", "U+10C3",
      "U+10C4", "U+10C5", "U+10C7", "U+10CD", "U+13A0", "U+13A1", "U+13A2", "U+13A3",
      "U+13A4", "U+13A5", "U+13A6", "U+13A7", "U+13A8", "U+13A9", "U+13AA", "U+13AB",
      "U+13AC", "U+13AD", "U+13AE", "U+13AF", "U+13B0", "U+13B1", "U+13B2", "U+13B3",
      "U+13B4", "U+13B5", "U+13B6", "U+13B7", "U+13B8", "U+13B9", "U+13BA", "U+13BB",
      "U+13BC", "U+13BD", "U+13BE", "U+13BF", "U+13C0", "U+13C1", "U+13C2", "U+13C3",
      "U+13C4", "U+13C5", "U+13C6", "U+13C7", "U+13C8", "U+13C9", "U+13CA", "U+13CB",
      "U+13CC", "U+13CD", "U+13CE", "U+13CF", "U+13D0", "U+13D1", "U+13D2", "U+13D3",
      "U+13D4", "U+13D5", "U+13D6", "U+13D7", "U+13D8", "U+13D9", "U+13DA", "U+13DB",
      "U+13DC", "U+13DD", "U+13DE", "U+13DF", "U+13E0", "U+13E1", "U+13E2", "U+13E3",
      "U+13E4", "U+13E5", "U+13E6", "U+13E7", "U+13E8", "U+13E9", "U+13EA", "U+13EB",
      "U+13EC", "U+13ED", "U+13EE", "U+13EF", "U+13F0", "U+13F1", "U+13F2", "U+13F3",
      "U+13F4", "U+13F5", "U+1C90", "U+1C91", "U+1C92", "U+1C93", "U+1C94", "U+1C95",
      "U+1C96", "U+1C97", "U+1C98", "U+1C99", "U+1C9A", "U+1C9B", "U+1C9C", "U+1C9D",
      "U+1C9E", "U+1C9F", "U+1CA0", "U+1CA1", "U+1CA2", "U+1CA3", "U+1CA4", "U+1CA5",
      "U+1CA6", "U+1CA7", "U+1CA8", "U+1CA9", "U+1CAA", "U+1CAB", "U+1CAC", "U+1CAD",
      "U+1CAE", "U+1CAF", "U+1CB0", "U+1CB1", "U+1CB2", "U+1CB3", "U+1CB4", "U+1CB5",
      "U+1CB6", "U+1CB7", "U+1CB8", "U+1CB9", "U+1CBA", "U+1CBD", "U+1CBE", "U+1CBF",
      "U+1E00", "U+1E02", "U+1E04", "U+1E06", "U+1E08", "U+1E0A", "U+1E0C", "U+1E0E",
      "U+1E10", "U+1E12", "U+1E14", "U+1E16", "U+1E18", "U+1E1A", "U+1E1C", "U+1E1E",
      "U+1E20", "U+1E22", "U+1E24", "U+1E26", "U+1E28", "U+1E2A", "U+1E2C", "U+1E2E",
      "U+1E30", "U+1E32", "U+1E34", "U+1E36", "U+1E38", "U+1E3A", "U+1E3C", "U+1E3E",
      "U+1E40", "U+1E42", "U+1E44", "U+1E46", "U+1E48", "U+1E4A", "U+1E4C", "U+1E4E",
      "U+1E50", "U+1E52", "U+1E54", "U+1E56", "U+1E58", "U+1E5A", "U+1E5C", "U+1E5E",
      "U+1E60", "U+1E62", "U+1E64", "U+1E66", "U+1E68", "U+1E6A", "U+1E6C", "U+1E6E",
      "U+1E70", "U+1E72", "U+1E74", "U+1E76", "U+1E78", "U+1E7A", "U+1E7C", "U+1E7E",
      "U+1E80", "U+1E82", "U+1E84", "U+1E86", "U+1E88", "U+1E8A", "U+1E8C", "U+1E8E",
      "U+1E90", "U+1E92", "U+1E94", "U+1E9E", "U+1EA0", "U+1EA2", "U+1EA4", "U+1EA6",
      "U+1EA8", "U+1EAA", "U+1EAC", "U+1EAE", "U+1EB0", "U+1EB2", "U+1EB4", "U+1EB6",
      "U+1EB8", "U+1EBA", "U+1EBC", "U+1EBE", "U+1EC0", "U+1EC2", "U+1EC4", "U+1EC6",
      "U+1EC8", "U+1ECA", "U+1ECC", "U+1ECE", "U+1ED0", "U+1ED2", "U+1ED4", "U+1ED6",
      "U+1ED8", "U+1EDA", "U+1EDC", "U+1EDE", "U+1EE0", "U+1EE2", "U+1EE4", "U+1EE6",
      "U+1EE8", "U+1EEA", "U+1EEC", "U+1EEE", "U+1EF0", "U+1EF2", "U+1EF4", "U+1EF6",
      "U+1EF8", "U+1EFA", "U+1EFC", "U+1EFE", "U+1F08", "U+1F09", "U+1F0A", "U+1F0B",
      "U+1F0C", "U+1F0D", "U+1F0E", "U+1F0F", "U+1F18", "U+1F19", "U+1F1A", "U+1F1B",
      "U+1F1C", "U+1F1D", "U+1F28", "U+1F29", "U+1F2A", "U+1F2B", "U+1F2C", "U+1F2D",
      "U+1F2E", "U+1F2F", "U+1F38", "U+1F39", "U+1F3A", "U+1F3B", "U+1F3C", "U+1F3D",
      "U+1F3E", "U+1F3F", "U+1F48", "U+1F49", "U+1F4A", "U+1F4B", "U+1F4C", "U+1F4D",
      "U+1F59", "U+1F5B", "U+1F5D", "U+1F5F", "U+1F68", "U+1F69", "U+1F6A", "U+1F6B",
      "U+1F6C", "U+1F6D", "U+1F6E", "U+1F6F", "U+1FB8", "U+1FB9", "U+1FBA", "U+1FBB",
      "U+1FC8", "U+1FC9", "U+1FCA", "U+1FCB", "U+1FD8", "U+1FD9", "U+1FDA", "U+1FDB",
      "U+1FE8", "U+1FE9", "U+1FEA", "U+1FEB", "U+1FEC", "U+1FF8", "U+1FF9", "U+1FFA",
      "U+1FFB", "U+2102", "U+2107", "U+210B", "U+210C", "U+210D", "U+2110", "U+2111",
      "U+2112", "U+2115", "U+2119", "U+211A", "U+211B", "U+211C", "U+211D", "U+2124",
      "U+2126", "U+2128", "U+212A", "U+212B", "U+212C", "U+212D", "U+2130", "U+2131",
      "U+2132", "U+2133", "U+213E", "U+213F", "U+2145", "U+2160", "U+2161", "U+2162",
      "U+2163", "U+2164", "U+2165", "U+2166", "U+2167", "U+2168", "U+2169", "U+216A",
      "U+216B", "U+216C", "U+216D", "U+216E", "U+216F", "U+2183", "U+24B6", "U+24B7",
      "U+24B8", "U+24B9", "U+24BA", "U+24BB", "U+24BC", "U+24BD", "U+24BE", "U+24BF",
      "U+24C0", "U+24C1", "U+24C2", "U+24C3", "U+24C4", "U+24C5", "U+24C6", "U+24C7",
      "U+24C8", "U+24C9", "U+24CA", "U+24CB", "U+24CC", "U+24CD", "U+24CE", "U+24CF",
      "U+2C00", "U+2C01", "U+2C02", "U+2C03", "U+2C04", "U+2C05", "U+2C06", "U+2C07",
      "U+2C08", "U+2C09", "U+2C0A", "U+2C0B", "U+2C0C", "U+2C0D", "U+2C0E", "U+2C0F",
      "U+2C10", "U+2C11", "U+2C12", "U+2C13", "U+2C14", "U+2C15", "U+2C16", "U+2C17",
      "U+2C18", "U+2C19", "U+2C1A", "U+2C1B", "U+2C1C", "U+2C1D", "U+2C1E", "U+2C1F",
      "U+2C20", "U+2C21", "U+2C22", "U+2C23", "U+2C24", "U+2C25", "U+2C26", "U+2C27",
      "U+2C28", "U+2C29", "U+2C2A", "U+2C2B", "U+2C2C", "U+2C2D", "U+2C2E", "U+2C2F",
      "U+2C60", "U+2C62", "U+2C63", "U+2C64", "U+2C67", "U+2C69", "U+2C6B", "U+2C6D",
      "U+2C6E", "U+2C6F", "U+2C70", "U+2C72", "U+2C75", "U+2C7E", "U+2C7F", "U+2C80",
      "U+2C82", "U+2C84", "U+2C86", "U+2C88", "U+2C8A", "U+2C8C", "U+2C8E", "U+2C90",
      "U+2C92", "U+2C94", "U+2C96", "U+2C98", "U+2C9A", "U+2C9C", "U+2C9E", "U+2CA0",
      "U+2CA2", "U+2CA4", "U+2CA6", "U+2CA8", "U+2CAA", "U+2CAC", "U+2CAE", "U+2CB0",
      "U+2CB2", "U+2CB4", "U+2CB6", "U+2CB8", "U+2CBA", "U+2CBC", "U+2CBE", "U+2CC0",
      "U+2CC2", "U+2CC4", "U+2CC6", "U+2CC8", "U+2CCA", "U+2CCC", "U+2CCE", "U+2CD0",
      "U+2CD2", "U+2CD4", "U+2CD6", "U+2CD8", "U+2CDA", "U+2CDC", "U+2CDE", "U+2CE0",
      "U+2CE2", "U+2CEB", "U+2CED", "U+2CF2", "U+A640", "U+A642", "U+A644", "U+A646",
      "U+A648", "U+A64A", "U+A64C", "U+A64E", "U+A650", "U+A652", "U+A654", "U+A656",
      "U+A658", "U+A65A", "U+A65C", "U+A65E", "U+A660", "U+A662", "U+A664", "U+A666",
      "U+A668", "U+A66A", "U+A66C", "U+A680", "U+A682", "U+A684", "U+A686", "U+A688",
      "U+A68A", "U+A68C", "U+A68E", "U+A690", "U+A692", "U+A694", "U+A696", "U+A698",
      "U+A69A", "U+A722", "U+A724", "U+A726", "U+A728", "U+A72A", "U+A72C", "U+A72E",
      "U+A732", "U+A734", "U+A736", "U+A738", "U+A73A", "U+A73C", "U+A73E", "U+A740",
      "U+A742", "U+A744", "U+A746", "U+A748", "U+A74A", "U+A74C", "U+A74E", "U+A750",
      "U+A752", "U+A754", "U+A756", "U+A758", "U+A75A", "U+A75C", "U+A75E", "U+A760",
      "U+A762", "U+A764", "U+A766", "U+A768", "U+A76A", "U+A76C", "U+A76E", "U+A779",
      "U+A77B", "U+A77D", "U+A77E", "U+A780", "U+A782", "U+A784", "U+A786", "U+A78B",
      "U+A78D", "U+A790", "U+A792", "U+A796", "U+A798", "U+A79A", "U+A79C", "U+A79E",
      "U+A7A0", "U+A7A2", "U+A7A4", "U+A7A6", "U+A7A8", "U+A7AA", "U+A7AB", "U+A7AC",
      "U+A7AD", "U+A7AE", "U+A7B0", "U+A7B1", "U+A7B2", "U+A7B3", "U+A7B4", "U+A7B6",
      "U+A7B8", "U+A7BA", "U+A7BC", "U+A7BE", "U+A7C0", "U+A7C2", "U+A7C4", "U+A7C5",
      "U+A7C6", "U+A7C7", "U+A7C9", "U+A7D0", "U+A7D6", "U+A7D8", "U+A7F5", "U+FF21",
      "U+FF22", "U+FF23", "U+FF24", "U+FF25", "U+FF26", "U+FF27", "U+FF28", "U+FF29",
      "U+FF2A", "U+FF2B", "U+FF2C", "U+FF2D", "U+FF2E", "U+FF2F", "U+FF30", "U+FF31",
      "U+FF32", "U+FF33", "U+FF34", "U+FF35", "U+FF36", "U+FF37", "U+FF38", "U+FF39",
      "U+FF3A", "U+10400", "U+10401", "U+10402", "U+10403", "U+10404", "U+10405", "U+10406",
      "U+10407", "U+10408", "U+10409", "U+1040A", "U+1040B", "U+1040C", "U+1040D", "U+1040E",
      "U+1040F", "U+10410", "U+10411", "U+10412", "U+10413", "U+10414", "U+10415", "U+10416",
      "U+10417", "U+10418", "U+10419", "U+1041A", "U+1041B", "U+1041C", "U+1041D", "U+1041E",
      "U+1041F", "U+10420", "U+10421", "U+10422", "U+10423", "U+10424", "U+10425", "U+10426",
      "U+10427", "U+104B0", "U+104B1", "U+104B2", "U+104B3", "U+104B4", "U+104B5", "U+104B6",
      "U+104B7", "U+104B8", "U+104B9", "U+104BA", "U+104BB", "U+104BC", "U+104BD", "U+104BE",
      "U+104BF", "U+104C0", "U+104C1", "U+104C2", "U+104C3", "U+104C4", "U+104C5", "U+104C6",
      "U+104C7", "U+104C8", "U+104C9", "U+104CA", "U+104CB", "U+104CC", "U+104CD", "U+104CE",
      "U+104CF", "U+104D0", "U+104D1", "U+104D2", "U+104D3", "U+10570", "U+10571", "U+10572",
      "U+10573", "U+10574", "U+10575", "U+10576", "U+10577", "U+10578", "U+10579", "U+1057A",
      "U+1057C", "U+1057D", "U+1057E", "U+1057F", "U+10580", "U+10581", "U+10582", "U+10583",
      "U+10584", "U+10585", "U+10586", "U+10587", "U+10588", "U+10589", "U+1058A", "U+1058C",
      "U+1058D", "U+1058E", "U+1058F", "U+10590", "U+10591", "U+10592", "U+10594", "U+10595",
      "U+10C80", "U+10C81", "U+10C82", "U+10C83", "U+10C84", "U+10C85", "U+10C86", "U+10C87",
      "U+10C88", "U+10C89", "U+10C8A", "U+10C8B", "U+10C8C", "U+10C8D", "U+10C8E", "U+10C8F",
      "U+10C90", "U+10C91", "U+10C92", "U+10C93", "U+10C94", "U+10C95", "U+10C96", "U+10C97",
      "U+10C98", "U+10C99", "U+10C9A", "U+10C9B", "U+10C9C", "U+10C9D", "U+10C9E", "U+10C9F",
      "U+10CA0", "U+10CA1", "U+10CA2", "U+10CA3", "U+10CA4", "U+10CA5", "U+10CA6", "U+10CA7",
      "U+10CA8", "U+10CA9", "U+10CAA", "U+10CAB", "U+10CAC", "U+10CAD", "U+10CAE", "U+10CAF",
      "U+10CB0", "U+10CB1", "U+10CB2", "U+118A0", "U+118A1", "U+118A2", "U+118A3", "U+118A4",
      "U+118A5", "U+118A6", "U+118A7", "U+118A8", "U+118A9", "U+118AA", "U+118AB", "U+118AC",
      "U+118AD", "U+118AE", "U+118AF", "U+118B0", "U+118B1", "U+118B2", "U+118B3", "U+118B4",
      "U+118B5", "U+118B6", "U+118B7", "U+118B8", "U+118B9", "U+118BA", "U+118BB", "U+118BC",
      "U+118BD", "U+118BE", "U+118BF", "U+16E40", "U+16E41", "U+16E42", "U+16E43", "U+16E44",
      "U+16E45", "U+16E46", "U+16E47", "U+16E48", "U+16E49", "U+16E4A", "U+16E4B", "U+16E4C",
      "U+16E4D", "U+16E4E", "U+16E4F", "U+16E50", "U+16E51", "U+16E52", "U+16E53", "U+16E54",
      "U+16E55", "U+16E56", "U+16E57", "U+16E58", "U+16E59", "U+16E5A", "U+16E5B", "U+16E5C",
      "U+16E5D", "U+16E5E", "U+16E5F", "U+1D400", "U+1D401", "U+1D402", "U+1D403", "U+1D404",
      "U+1D405", "U+1D406", "U+1D407", "U+1D408", "U+1D409", "U+1D40A", "U+1D40B", "U+1D40C",
      "U+1D40D", "U+1D40E", "U+1D40F", "U+1D410", "U+1D411", "U+1D412", "U+1D413", "U+1D414",
      "U+1D415", "U+1D416", "U+1D417", "U+1D418", "U+1D419", "U+1D434", "U+1D435", "U+1D436",
      "U+1D437", "U+1D438", "U+1D439", "U+1D43A", "U+1D43B", "U+1D43C", "U+1D43D", "U+1D43E",
      "U+1D43F", "U+1D440", "U+1D441", "U+1D442", "U+1D443", "U+1D444", "U+1D445", "U+1D446",
      "U+1D447", "U+1D448", "U+1D449", "U+1D44A", "U+1D44B", "U+1D44C", "U+1D44D", "U+1D468",
      "U+1D469", "U+1D46A", "U+1D46B", "U+1D46C", "U+1D46D", "U+1D46E", "U+1D46F", "U+1D470",
      "U+1D471", "U+1D472", "U+1D473", "U+1D474", "U+1D475", "U+1D476", "U+1D477", "U+1D478",
      "U+1D479", "U+1D47A", "U+1D47B", "U+1D47C", "U+1D47D", "U+1D47E", "U+1D47F", "U+1D480",
      "U+1D481", "U+1D49C", "U+1D49E", "U+1D49F", "U+1D4A2", "U+1D4A5", "U+1D4A6", "U+1D4A9",
      "U+1D4AA", "U+1D4AB", "U+1D4AC", "U+1D4AE", "U+1D4AF", "U+1D4B0", "U+1D4B1", "U+1D4B2",
      "U+1D4B3", "U+1D4B4", "U+1D4B5", "U+1D4D0", "U+1D4D1", "U+1D4D2", "U+1D4D3", "U+1D4D4",
      "U+1D4D5", "U+1D4D6", "U+1D4D7", "U+1D4D8", "U+1D4D9", "U+1D4DA", "U+1D4DB", "U+1D4DC",
      "U+1D4DD", "U+1D4DE", "U+1D4DF", "U+1D4E0", "U+1D4E1", "U+1D4E2", "U+1D4E3", "U+1D4E4",
      "U+1D4E5", "U+1D4E6", "U+1D4E7", "U+1D4E8", "U+1D4E9", "U+1D504", "U+1D505", "U+1D507",
      "U+1D508", "U+1D509", "U+1D50A", "U+1D50D", "U+1D50E", "U+1D50F", "U+1D510", "U+1D511",
      "U+1D512", "U+1D513", "U+1D514", "U+1D516", "U+1D517", "U+1D518", "U+1D519", "U+1D51A",
      "U+1D51B", "U+1D51C", "U+1D538", "U+1D539", "U+1D53B", "U+1D53C", "U+1D53D", "U+1D53E",
      "U+1D540", "U+1D541", "U+1D542", "U+1D543", "U+1D544", "U+1D546", "U+1D54A", "U+1D54B",
      "U+1D54C", "U+1D54D", "U+1D54E", "U+1D54F", "U+1D550", "U+1D56C", "U+1D56D", "U+1D56E",
      "U+1D56F", "U+1D570", "U+1D571", "U+1D572", "U+1D573", "U+1D574", "U+1D575", "U+1D576",
      "U+1D577", "U+1D578", "U+1D579", "U+1D57A", "U+1D57B", "U+1D57C", "U+1D57D", "U+1D57E",
      "U+1D57F", "U+1D580", "U+1D581", "U+1D582", "U+1D583", "U+1D584", "U+1D585", "U+1D5A0",
      "U+1D5A1", "U+1D5A2", "U+1D5A3", "U+1D5A4", "U+1D5A5", "U+1D5A6", "U+1D5A7", "U+1D5A8",
      "U+1D5A9", "U+1D5AA", "U+1D5AB", "U+1D5AC", "U+1D5AD", "U+1D5AE", "U+1D5AF", "U+1D5B0",
      "U+1D5B1", "U+1D5B2", "U+1D5B3", "U+1D5B4", "U+1D5B5", "U+1D5B6", "U+1D5B7", "U+1D5B8",
      "U+1D5B9", "U+1D5D4", "U+1D5D5", "U+1D5D6", "U+1D5D7", "U+1D5D8", "U+1D5D9", "U+1D5DA",
      "U+1D5DB", "U+1D5DC", "U+1D5DD", "U+1D5DE", "U+1D5DF", "U+1D5E0", "U+1D5E1", "U+1D5E2",
      "U+1D5E3", "U+1D5E4", "U+1D5E5", "U+1D5E6", "U+1D5E7", "U+1D5E8", "U+1D5E9", "U+1D5EA",
      "U+1D5EB", "U+1D5EC", "U+1D5ED", "U+1D608", "U+1D609", "U+1D60A", "U+1D60B", "U+1D60C",
      "U+1D60D", "U+1D60E", "U+1D60F", "U+1D610", "U+1D611", "U+1D612", "U+1D613", "U+1D614",
      "U+1D615", "U+1D616", "U+1D617", "U+1D618", "U+1D619", "U+1D61A", "U+1D61B", "U+1D61C",
      "U+1D61D", "U+1D61E", "U+1D61F", "U+1D620", "U+1D621", "U+1D63C", "U+1D63D", "U+1D63E",
      "U+1D63F", "U+1D640", "U+1D641", "U+1D642", "U+1D643", "U+1D644", "U+1D645", "U+1D646",
      "U+1D647", "U+1D648", "U+1D649", "U+1D64A", "U+1D64B", "U+1D64C", "U+1D64D", "U+1D64E",
      "U+1D64F", "U+1D650", "U+1D651", "U+1D652", "U+1D653", "U+1D654", "U+1D655", "U+1D670",
      "U+1D671", "U+1D672", "U+1D673", "U+1D674", "U+1D675", "U+1D676", "U+1D677", "U+1D678",
      "U+1D679", "U+1D67A", "U+1D67B", "U+1D67C", "U+1D67D", "U+1D67E", "U+1D67F", "U+1D680",
      "U+1D681", "U+1D682", "U+1D683", "U+1D684", "U+1D685", "U+1D686", "U+1D687", "U+1D688",
      "U+1D689", "U+1D6A8", "U+1D6A9", "U+1D6AA", "U+1D6AB", "U+1D6AC", "U+1D6AD", "U+1D6AE",
      "U+1D6AF", "U+1D6B0", "U+1D6B1", "U+1D6B2", "U+1D6B3", "U+1D6B4", "U+1D6B5", "U+1D6B6",
      "U+1D6B7", "U+1D6B8", "U+1D6B9", "U+1D6BA", "U+1D6BB", "U+1D6BC", "U+1D6BD", "U+1D6BE",
      "U+1D6BF", "U+1D6C0", "U+1D6E2", "U+1D6E3", "U+1D6E4", "U+1D6E5", "U+1D6E6", "U+1D6E7",
      "U+1D6E8", "U+1D6E9", "U+1D6EA", "U+1D6EB", "U+1D6EC", "U+1D6ED", "U+1D6EE", "U+1D6EF",
      "U+1D6F0", "U+1D6F1", "U+1D6F2", "U+1D6F3", "U+1D6F4", "U+1D6F5", "U+1D6F6", "U+1D6F7",
      "U+1D6F8", "U+1D6F9", "U+1D6FA", "U+1D71C", "U+1D71D", "U+1D71E", "U+1D71F", "U+1D720",
      "U+1D721", "U+1D722", "U+1D723", "U+1D724", "U+1D725", "U+1D726", "U+1D727", "U+1D728",
      "U+1D729", "U+1D72A", "U+1D72B", "U+1D72C", "U+1D72D", "U+1D72E", "U+1D72F", "U+1D730",
      "U+1D731", "U+1D732", "U+1D733", "U+1D734", "U+1D756", "U+1D757", "U+1D758", "U+1D759",
      "U+1D75A", "U+1D75B", "U+1D75C", "U+1D75D", "U+1D75E", "U+1D75F", "U+1D760", "U+1D761",
      "U+1D762", "U+1D763", "U+1D764", "U+1D765", "U+1D766", "U+1D767", "U+1D768", "U+1D769",
      "U+1D76A", "U+1D76B", "U+1D76C", "U+1D76D", "U+1D76E", "U+1D790", "U+1D791", "U+1D792",
      "U+1D793", "U+1D794", "U+1D795", "U+1D796", "U+1D797", "U+1D798", "U+1D799", "U+1D79A",
      "U+1D79B", "U+1D79C", "U+1D79D", "U+1D79E", "U+1D79F", "U+1D7A0", "U+1D7A1", "U+1D7A2",
      "U+1D7A3", "U+1D7A4", "U+1D7A5", "U+1D7A6", "U+1D7A7", "U+1D7A8", "U+1D7CA", "U+1E900",
      "U+1E901", "U+1E902", "U+1E903", "U+1E904", "U+1E905", "U+1E906", "U+1E907", "U+1E908",
      "U+1E909", "U+1E90A", "U+1E90B", "U+1E90C", "U+1E90D", "U+1E90E", "U+1E90F", "U+1E910",
      "U+1E911", "U+1E912", "U+1E913", "U+1E914", "U+1E915", "U+1E916", "U+1E917", "U+1E918",
      "U+1E919", "U+1E91A", "U+1E91B", "U+1E91C", "U+1E91D", "U+1E91E", "U+1E91F", "U+1E920",
      "U+1E921", "U+1F130", "U+1F131", "U+1F132", "U+1F133", "U+1F134", "U+1F135", "U+1F136",
      "U+1F137", "U+1F138", "U+1F139", "U+1F13A", "U+1F13B", "U+1F13C", "U+1F13D", "U+1F13E",
      "U+1F13F", "U+1F140", "U+1F141", "U+1F142", "U+1F143", "U+1F144", "U+1F145", "U+1F146",
      "U+1F147", "U+1F148", "U+1F149", "U+1F150", "U+1F151", "U+1F152", "U+1F153", "U+1F154",
      "U+1F155", "U+1F156", "U+1F157", "U+1F158", "U+1F159", "U+1F15A", "U+1F15B", "U+1F15C",
      "U+1F15D", "U+1F15E", "U+1F15F", "U+1F160", "U+1F161", "U+1F162", "U+1F163", "U+1F164",
      "U+1F165", "U+1F166", "U+1F167", "U+1F168", "U+1F169", "U+1F170", "U+1F171", "U+1F172",
      "U+1F173", "U+1F174", "U+1F175", "U+1F176", "U+1F177", "U+1F178", "U+1F179", "U+1F17A",
      "U+1F17B", "U+1F17C", "U+1F17D", "U+1F17E", "U+1F17F", "U+1F180", "U+1F181", "U+1F182",
      "U+1F183", "U+1F184", "U+1F185", "U+1F186", "U+1F187", "U+1F188", "U+1F189" }

\* the characters with c.islower() (Unicode property Lowercase)
LowerCase ==
    { "a", "b", "c", "d", "e", "f", "g", "h",
      "i", "j", "k", "l", "m", "n", "o", "p",
      "q", "r", "s", "t", "u", "v", "w", "x",
      "y", "z", "U+00AA", "U+00B5", "U+00BA", "U+00DF", "U+00E0", "U+00E1",
      "U+00E2", "U+00E3", "U+00E4", "U+00E5", "U+00E6", "U+00E7", "U+00E8", "U+00E9",
      "U+00EA", "U+00EB", "U+00EC", "U+00ED", "U+00EE", "U+00EF", "U+00F0", "U+00F1",
      "U+00F2", "U+00F3", "U+00F4", "U+00F5", "U+00F6", "U+00F8", "U+00F9", "U+00FA",
      "U+00FB", "U+00FC", "U+00FD", "U+00FE", "U+00FF", "U+0101", "U+0103", "U+0105",
      "U+0107", "U+0109", "U+010B", "U+010D", "U+010F", "U+0111", "U+0113", "U+0115",
      "U+0117", "U+0119", "U+011B", "U+011D", "U+011F", "U+0121", "U+0123", "U+0125",
      "U+0127", "U+0129", "U+012B", "U+012D", "U+012F", "U+0131", "U+0133", "U+0135",
      "U+0137", "U+0138", "U+013A", "U+013C", "U+013E", "U+0140", "U+0142", "U+0144",
      "U+0146", "U+0148", "U+0149", "U+014B", "U+014D", "U+014F", "U+0151", "U+0153",
      "U+0155", "U+0157", "U+0159", "U+015B", "U+015D", "U+015F", "U+0161", "U+0163",
      "U+0165", "U+0167", "U+0169", "U+016B", "U+016D", "U+016F", "U+0171", "U+0173",
      "U+0175", "U+0177", "U+017A", "U+017C", "U+017E", "U+017F", "U+0180", "U+0183",
      "U+0185", "U+0188", "U+018C", "U+018D", "U+0192", "U+0195", "U+0199", "U+019A",
      "U+019B", "U+019E", "U+01A1", "U+01A3", "U+01A5", "U+01A8", "U+01AA", "U+01AB",
      "U+01AD", "U+01B0", "U+01B4", "U+01B6", "U+01B9", "U+01BA", "U+01BD", "U+01BE",
      "U+01BF", "U+01C6", "U+01C9", "U+01CC", "U+01CE", "U+01D0", "U+01D2", "U+01D4",
      "U+01D6", "U+01D8", "U+01DA", "U+01DC", "U+01DD", "U+01DF", "U+01E1", "U+01E3",
      "U+01E5", "U+01E7", "U+01E9", "U+01EB", "U+01ED", "U+01EF", "U+01F0", "U+01F3",
      "U+01F5", "U+01F9", "U+01FB", "U+01FD", "U+01FF", "U+0201", "U+0203", "U+0205",
      "U+0207", "U+0209", "U+020B", "U+020D", "U+020F", "U+0211", "U+0213", "U+0215",
      "U+0217", "U+0219", "U+021B", "U+021D", "U+021F", "U+0221", "U+0223", "U+0225",
      "U+0227", "U+0229", "U+022B", "U+022D", "U+022F", "U+0231", "U+0233", "U+0234",
      "U+0235", "U+0236", "U+0237", "U+0238", "U+0239", "U+023C", "U+023F", "U+0240",
      "U+0242", "U+0247", "U+0249", "U+024B", "U+024D", "U+024F", "U+0250", "U+0251",
      "U+0252", "U+0253", "U+0254", "U+0255", "U+0256", "U+0257", "U+0258", "U+0259",
      "U+025A", "U+025B", "U+025C", "U+025D", "U+025E", "U+025F", "U+0260", "U+0261",
      "U+0262", "U+0263", "U+0264", "U+0265", "U+0266", "U+0267", "U+0268", "U+0269",
      "U+026A", "U+026B", "U+026C", "U+026D", "U+026E", "U+026F", "U+0270", "U+0271",
      "U+0272", "U+0273", "U+0274", "U+0275", "U+0276", "U+0277", "U+0278", "U+0279",
      "U+027A", "U+027B", "U+027C", "U+027D", "U+027E", "U+027F", "U+0280", "U+0281",
      "U+0282", "U+0283", "U+0284", "U+0285", "U+0286", "U+0287", "U+0288", "U+0289",
      "U+028A", "U+028B", "U+028C", "U+028D", "U+028E", "U+028F", "U+0290", "U+0291",
      "U+0292", "U+0293", "U+0295", "U+0296", "U+0297", "U+0298", "U+0299", "U+029A",
      "U+029B", "U+029C", "U+029D", "U+029E", "U+029F", "U+02A0", "U+02A1", "U+02A2",
      "U+02A3", "U+02A4", "U+02A5", "U+02A6", "U+02A7", "U+02A8", "U+02A9", "U+02AA",
      "U+02AB", "U+02AC", "U+02AD", "U+02AE", "U+02AF", "U+02B0", "U+02B1", "U+02B2",
      "U+02B3", "U+02B4", "U+02B5", "U+02B6", "U+02B7", "U+02B8", "U+02C0", "U+02C1",
      "U+02E0", "U+02E1", "U+02E2", "U+02E3", "U+02E4", "U+0345", "U+0371", "U+0373",
      "U+0377", "U+037A", "U+037B", "U+037C", "U+037D", "U+0390", "U+03AC", "U+03AD",
      "U+03AE", "U+03AF", "U+03B0", "U+03B1", "U+03B2", "U+03B3", "U+03B4", "U+03B5",
      "U+03B6", "U+03B7", "U+03B8", "U+03B9", "U+03BA", "U+03BB", "U+03BC", "U+03BD",
      "U+03BE", "U+03BF", "U+03C0", "U+03C1", "U+03C2", "U+03C3", "U+03C4", "U+03C5",
      "U+03C6", "U+03C7", "U+03C8", "U+03C9", "U+03CA", "U+03CB", "U+03CC", "U+03CD",
      "U+03CE", "U+03D0", "U+03D1", "U+03D5", "U+03D6", "U+03D7", "U+03D9", "U+03DB",
      "U+03DD", "U+03DF", "U+03E1", "U+03E3", "U+03E5", "U+03E7", "U+03E9", "U+03EB",
      "U+03ED", "U+03EF", "U+03F0", "U+03F1", "U+03F2", "U+03F3", "U+03F5", "U+03F8",
      "U+03FB", "U+03FC", "U+0430", "U+0431", "U+0432", "U+0433", "U+0434", "U+0435",
      "U+0436", "U+0437", "U+0438", "U+0439", "U+043A", "U+043B", "U+043C", "U+043D",
      "U+043E", "U+043F", "U+0440", "U+0441", "U+0442", "U+0443", "U+0444", "U+0445",
      "U+0446", "U+0447", "U+0448", "U+0449", "U+044A", "U+044B", "U+044C", "U+044D",
      "U+044E", "U+044F", "U+0450", "U+0451", "U+0452", "U+0453", "U+0454", "U+0455",
      "U+0456", "U+0457", "U+0458", "U+0459", "U+045A", "U+045B", "U+045C", "U+045D",
      "U+045E", "U+045F", "U+0461", "U+0463", "U+0465", "U+0467", "U+0469", "U+046B",
      "U+046D", "U+046F", "U+0471", "U+0473", "U+0475", "U+0477", "U+0479", "U+047B",
      "U+047D", "U+047F", "U+0481", "U+048B", "U+048D", "U+048F", "U+0491", "U+0493",
      "U+0495", "U+0497", "U+0499", "U+049B", "U+049D", "U+049F", "U+04A1", "U+04A3",
      "U+04A5", "U+04A7", "U+04A9", "U+04AB", "U+04AD", "U+04AF", "U+04B1", "U+04B3",
      "U+04B5", "U+04B7", "U+04B9", "U+04BB", "U+04BD", "U+04BF", "U+04C2", "U+04C4",
      "U+04C6", "U+04C8", "U+04CA", "U+04CC", "U+04CE", "U+04CF", "U+04D1", "U+04D3",
      "U+04D5", "U+04D7", "U+04D9", "U+04DB", "U+04DD", "U+04DF", "U+04E1", "U+04E3",
      "U+04E5", "U+04E7", "U+04E9", "U+04EB", "U+04ED", "U+04EF", "U+04F1", "U+04F3",
      "U+04F5", "U+04F7", "U+04F9", "U+04FB", "U+04FD", "U+04FF", "U+0501", "U+0503",
      "U+0505", "U+0507", "U+0509", "U+050B", "U+050D", "U+050F", "U+0511", "U+0513",
      "U+0515", "U+0517", "U+0519", "U+051B", "U+051D", "U+051F", "U+0521", "U+0523",
      "U+0525", "U+0527", "U+0529", "U+052B", "U+052D", "U+052F", "U+0560", "U+0561",
      "U+0562", "U+0563", "U+0564", "U+0565", "U+0566", "U+0567", "U+0568", "U+0569",
      "U+056A", "U+056B", "U+056C", "U+056D", "U+056E", "U+056F", "U+0570", "U+0571",
      "U+0572", "U+0573", "U+0574", "U+0575", "U+0576", "U+0577", "U+0578", "U+0579",
      "U+057A", "U+057B", "U+057C", "U+057D", "U+057E", "U+057F", "U+0580", "U+0581",
      "U+0582", "U+0583", "U+0584", "U+0585", "U+0586", "U+0587", "U+0588", "U+10D0",
      "U+10D1", "U+10D2", "U+10D3", "U+10D4", "U+10D5", "U+10D6", "U+10D7", "U+10D8",
      "U+10D9", "U+10DA", "U+10DB", "U+10DC", "U+10DD", "U+10DE", "U+10DF", "U+10E0",
      "U+10E1", "U+10E2", "U+10E3", "U+10E4", "U+10E5", "U+10E6", "U+10E7", "U+10E8",
      "U+10E9", "U+10EA", "U+10EB", "U+10EC", "U+10ED", "U+10EE", "U+10EF", "U+10F0",
      "U+10F1", "U+10F2", "U+10F3", "U+10F4", "U+10F5", "U+10F6", "U+10F7", "U+10F8",
      "U+10F9", "U+10FA", "U+10FD", "U+10FE", "U+10FF", "U+13F8", "U+13F9", "U+13FA",
      "U+13FB", "U+13FC", "U+13FD", "U+1C80", "U+1C81", "U+1C82", "U+1C83", "U+1C84",
      "U+1C85", "U+1C86", "U+1C87", "U+1C88", "U+1D00", "U+1D01", "U+1D02", "U+1D03",
      "U+1D04", "U+1D05", "U+1D06", "U+1D07", "U+1D08", "U+1D09", "U+1D0A", "U+1D0B",
      "U+1D0C", "U+1D0D", "U+1D0E", "U+1D0F", "U+1D10", "U+1D11", "U+1D12", "U+1D13",
      "U+1D14", "U+1D15", "U+1D16", "U+1D17", "U+1D18", "U+1D19", "U+1D1A", "U+1D1B",
      "U+1D1C", "U+1D1D", "U+1D1E", "U+1D1F", "U+1D20", "U+1D21", "U+1D22", "U+1D23",
      "U+1D24", "U+1D25", "U+1D26", "U+1D27", "U+1D28", "U+1D29", "U+1D2A", "U+1D2B",
      "U+1D2C", "U+1D2D", "U+1D2E", "U+1D2F", "U+1D30", "U+1D31", "U+1D32", "U+1D33",
      "U+1D34", "U+1D35", "U+1D36", "U+1D37", "U+1D38", "U+1D39", "U+1D3A", "U+1D3B",
      "U+1D3C", "U+1D3D", "U+1D3E", "U+1D3F", "U+1D40", "U+1D41", "U+1D42", "U+1D43",
      "U+1D44", "U+1D45", "U+1D46", "U+1D47", "U+1D48", "U+1D49", "U+1D4A", "U+1D4B",
      "U+1D4C", "U+1D4D", "U+1D4E", "U+1D4F", "U+1D50", "U+1D51", "U+1D52", "U+1D53",
      "U+1D54", "U+1D55", "U+1D56", "U+1D57", "U+1D58", "U+1D59", "U+1D5A", "U+1D5B",
      "U+1D5C", "U+1D5D", "U+1D5E", "U+1D5F", "U+1D60", "U+1D61", "U+1D62", "U+1D63",
      "U+1D64", "U+1D65", "U+1D66", "U+1D67", "U+1D68", "U+1D69", "U+1D6A", "U+1D6B",
      "U+1D6C", "U+1D6D", "U+1D6E", "U+1D6F", "U+1D70", "U+1D71", "U+1D72", "U+1D73",
      "U+1D74", "U+1D75", "U+1D76", "U+1D77", "U+1D78", "U+1D79", "U+1D7A", "U+1D7B",
      "U+1D7C", "U+1D7D", "U+1D7E", "U+1D7F", "U+1D80", "U+1D81", "U+1D82", "U+1D83",
      "U+1D84", "U+1D85", "U+1D86", "U+1D87", "U+1D88", "U+1D89", "U+1D8A", "U+1D8B",
      "U+1D8C", "U+1D8D", "U+1D8E", "U+1D8F", "U+1D90", "U+1D91", "U+1D92", "U+1D93",
      "U+1D94", "U+1D95", "U+1D96", "U+1D97", "U+1D98", "U+1D99", "U+1D9A", "U+1D9B",
      "U+1D9C", "U+1D9D", "U+1D9E", "U+1D9F", "U+1DA0", "U+1DA1", "U+1DA2", "U+1DA3",
      "U+1DA4", "U+1DA5", "U+1DA6", "U+1DA7", "U+1DA8", "U+1DA9", "U+1DAA", "U+1DAB",
      "U+1DAC", "U+1DAD", "U+1DAE", "U+1DAF", "U+1DB0", "U+1DB1", "U+1DB2", "U+1DB3",
      "U+1DB4", "U+1DB5", "U+1DB6", "U+1DB7", "U+1DB8", "U+1DB9", "U+1DBA", "U+1DBB",
      "U+1DBC", "U+1DBD", "U+1DBE", "U+1DBF", "U+1E01", "U+1E03", "U+1E05", "U+1E07",
      "U+1E09", "U+1E0B", "U+1E0D", "U+1E0F", "U+1E11", "U+1E13", "U+1E15", "U+1E17",
      "U+1E19", "U+1E1B", "U+1E1D", "U+1E1F", "U+1E21", "U+1E23", "U+1E25", "U+1E27",
      "U+1E29", "U+1E2B", "U+1E2D", "U+1E2F", "U+1E31", "U+1E33", "U+1E35", "U+1E37",
      "U+1E39", "U+1E3B", "U+1E3D", "U+1E3F", "U+1E41", "U+1E43", "U+1E45", "U+1E47",
      "U+1E49", "U+1E4B", "U+1E4D", "U+1E4F", "U+1E51", "U+1E53", "U+1E55", "U+1E57",
      "U+1E59", "U+1E5B", "U+1E5D", "U+1E5F", "U+1E61", "U+1E63", "U+1E65", "U+1E67",
      "U+1E69", "U+1E6B", "U+1E6D", "U+1E6F", "U+1E71", "U+1E73", "U+1E75", "U+1E77",
      "U+1E79", "U+1E7B", "U+1E7D", "U+1E7F", "U+1E81", "U+1E83", "U+1E85", "U+1E87",
      "U+1E89", "U+1E8B", "U+1E8D", "U+1E8F", "U+1E91", "U+1E93", "U+1E95", "U+1E96",
      "U+1E97", "U+1E98", "U+1E99", "U+1E9A", "U+1E9B", "U+1E9C", "U+1E9D", "U+1E9F",
      "U+1EA1", "U+1EA3", "U+1EA5", "U+1EA7", "U+1EA9", "U+1EAB", "U+1EAD", "U+1EAF",
      "U+1EB1", "U+1EB3", "U+1EB5", "U+1EB7", "U+1EB9", "U+1EBB", "U+1EBD", "U+1EBF",
      "U+1EC1", "U+1EC3", "U+1EC5", "U+1EC7", "U+1EC9", "U+1ECB", "U+1ECD", "U+1ECF",
      "U+1ED1", "U+1ED3", "U+1ED5", "U+1ED7", "U+1ED9", "U+1EDB", "U+1EDD", "U+1EDF",
      "U+1EE1", "U+1EE3", "U+1EE5", "U+1EE7", "U+1EE9", "U+1EEB", "U+1EED", "U+1EEF",
      "U+1EF1", "U+1EF3", "U+1EF5", "U+1EF7", "U+1EF9", "U+1EFB", "U+1EFD", "U+1EFF",
      "U+1F00", "U+1F01", "U+1F02", "U+1F03", "U+1F04", "U+1F05", "U+1F06", "U+1F07",
      "U+1F10", "U+1F11", "U+1F12", "U+1F13", "U+1F14", "U+1F15", "U+1F20", "U+1F21",
      "U+1F22", "U+1F23", "U+1F24", "U+1F25", "U+1F26", "U+1F27", "U+1F30", "U+1F31",
      "U+1F32", "U+1F33", "U+1F34", "U+1F35", "U+1F36", "U+1F37", "U+1F40", "U+1F41",
      "U+1F42", "U+1F43", "U+1F44", "U+1F45", "U+1F50", "U+1F51", "U+1F52", "U+1F53",
      "U+1F54", "U+1F55", "U+1F56", "U+1F57", "U+1F60", "U+1F61", "U+1F62", "U+1F63",
      "U+1F64", "U+1F65", "U+1F66", "U+1F67", "U+1F70", "U+1F71", "U+1F72", "U+1F73",
      "U+1F74", "U+1F75", "U+1F76", "U+1F77", "U+1F78", "U+1F79", "U+1F7A", "U+1F7B",
      "U+1F7C", "U+1F7D", "U+1F80", "U+1F81", "U+1F82", "U+1F83", "U+1F84", "U+1F85",
      "U+1F86", "U+1F87", "U+1F90", "U+1F91", "U+1F92", "U+1F93", "U+1F94", "U+1F95",
      "U+1F96", "U+1F97", "U+1FA0", "U+1FA1", "U+1FA2", "U+1FA3", "U+1FA4", "U+1FA5",
      "U+1FA6", "U+1FA7", "U+1FB0", "U+1FB1", "U+1FB2", "U+1FB3", "U+1FB4", "U+1FB6",
      "U+1FB7", "U+1FBE", "U+1FC2", "U+1FC3", "U+1FC4", "U+1FC6", "U+1FC7", "U+1FD0",
      "U+1FD1", "U+1FD2", "U+1FD3", "U+1FD6", "U+1FD7", "U+1FE0", "U+1FE1", "U+1FE2",
      "U+1FE3", "U+1FE4", "U+1FE5", "U+1FE6", "U+1FE7", "U+1FF2", "U+1FF3", "U+1FF4",
      "U+1FF6", "U+1FF7", "U+2071", "U+207F", "U+2090", "U+2091", "U+2092", "U+2093",
      "U+2094", "U+2095", "U+2096", "U+2097", "U+2098", "U+2099", "U+209A", "U+209B",
      "U+209C", "U+210A", "U+210E", "U+210F", "U+2113", "U+212F", "U+2134", "U+2139",
      "U+213C", "U+213D", "U+2146", "U+2147", "U+2148", "U+2149", "U+214E", "U+2170",
      "U+2171", "U+2172", "U+2173", "U+2174", "U+2175", "U+2176", "U+2177", "U+2178",
      "U+2179", "U+217A", "U+217B", "U+217C", "U+217D", "U+217E", "U+217F", "U+2184",
      "U+24D0", "U+24D1", "U+24D2", "U+24D3", "U+24D4", "U+24D5", "U+24D6", "U+24D7",
      "U+24D8", "U+24D9", "U+24DA", "U+24DB", "U+24DC", "U+24DD", "U+24DE", "U+24DF",
      "U+24E0", "U+24E1", "U+24E2", "U+24E3", "U+24E4", "U+24E5", "U+24E6", "U+24E7",
      "U+24E8", "U+24E9", "U+2C30", "U+2C31", "U+2C32", "U+2C33", "U+2C34", "U+2C35",
      "U+2C36", "U+2C37", "U+2C38", "U+2C39", "U+2C3A", "U+2C3B", "U+2C3C", "U+2C3D",
      "U+2C3E", "U+2C3F", "U+2C40", "U+2C41", "U+2C42", "U+2C43", "U+2C44", "U+2C45",
      "U+2C46", "U+2C47", "U+2C48", "U+2C49", "U+2C4A", "U+2C4B", "U+2C4C", "U+2C4D",
      "U+2C4E", "U+2C4F", "U+2C50", "U+2C51", "U+2C52", "U+2C53", "U+2C54", "U+2C55",
      "U+2C56", "U+2C57", "U+2C58", "U+2C59", "U+2C5A", "U+2C5B", "U+2C5C", "U+2C5D",
      "U+2C5E", "U+2C5F", "U+2C61", "U+2C65", "U+2C66", "U+2C68", "U+2C6A", "U+2C6C",
      "U+2C71", "U+2C73", "U+2C74", "U+2C76", "U+2C77", "U+2C78", "U+2C79", "U+2C7A",
      "U+2C7B", "U+2C7C", "U+2C7D", "U+2C81", "U+2C83", "U+2C85", "U+2C87", "U+2C89",
      "U+2C8B", "U+2C8D", "U+2C8F", "U+2C91", "U+2C93", "U+2C95", "U+2C97", "U+2C99",
      "U+2C9B", "U+2C9D", "U+2C9F", "U+2CA1", "U+2CA3", "U+2CA5", "U+2CA7", "U+2CA9",
      "U+2CAB", "U+2CAD", "U+2CAF", "U+2CB1", "U+2CB3", "U+2CB5", "U+2CB7", "U+2CB9",
      "U+2CBB", "U+2CBD", "U+2CBF", "U+2CC1", "U+2CC3", "U+2CC5", "U+2CC7", "U+2CC9",
      "U+2CCB", "U+2CCD", "U+2CCF", "U+2CD1", "U+2CD3", "U+2CD5", "U+2CD7", "U+2CD9",
      "U+2CDB", "U+2CDD", "U+2CDF", "U+2CE1", "U+2CE3", "U+2CE4", "U+2CEC", "U+2CEE",
      "U+2CF3", "U+2D00", "U+2D01", "U+2D02", "U+2D03", "U+2D04", "U+2D05", "U+2D06",
      "U+2D07", "U+2D08", "U+2D09", "U+2D0A", "U+2D0B", "U+2D0C", "U+2D0D", "U+2D0E",
      "U+2D0F", "U+2D10", "U+2D11", "U+2D12", "U+2D13", "U+2D14", "U+2D15", "U+2D16",
      "U+2D17", "U+2D18", "U+2D19", "U+2D1A", "U+2D1B", "U+2D1C", "U+2D1D", "U+2D1E",
      "U+2D1F", "U+2D20", "U+2D21", "U+2D22", "U+2D23", "U+2D24", "U+2D25", "U+2D27",
      "U+2D2D", "U+A641", "U+A643", "U+A645", "U+A647", "U+A649", "U+A64B", "U+A64D",
      "U+A64F", "U+A651", "U+A653", "U+A655", "U+A657", "U+A659", "U+A65B", "U+A65D",
      "U+A65F", "U+A661", "U+A663", "U+A665", "U+A667", "U+A669", "U+A66B", "U+A66D",
      "U+A681", "U+A683", "U+A685", "U+A687", "U+A689", "U+A68B", "U+A68D", "U+A68F",
      "U+A691", "U+A693", "U+A695", "U+A697", "U+A699", "U+A69B", "U+A69C", "U+A69D",
      "U+A723", "U+A725", "U+A727", "U+A729", "U+A72B", "U+A72D", "U+A72F", "U+A730",
      "U+A731", "U+A733", "U+A735", "U+A737", "U+A739", "U+A73B", "U+A73D", "U+A73F",
      "U+A741", "U+A743", "U+A745", "U+A747", "U+A749", "U+A74B", "U+A74D", "U+A74F",
      "U+A751", "U+A753", "U+A755", "U+A757", "U+A759", "U+A75B", "U+A75D", "U+A75F",
      "U+A761", "U+A763", "U+A765", "U+A767", "U+A769", "U+A76B", "U+A76D", "U+A76F",
      "U+A770", "U+A771", "U+A772", "U+A773", "U+A774", "U+A775", "U+A776", "U+A777",
      "U+A778", "U+A77A", "U+A77C", "U+A77F", "U+A781", "U+A783", "U+A785", "U+A787",
      "U+A78C", "U+A78E", "U+A791", "U+A793", "U+A794", "U+A795", "U+A797", "U+A799",
      "U+A79B", "U+A79D", "U+A79F", "U+A7A1", "U+A7A3", "U+A7A5", "U+A7A7", "U+A7A9",
      "U+A7AF", "U+A7B5", "U+A7B7", "U+A7B9", "U+A7BB", "U+A7BD", "U+A7BF", "U+A7C1",
      "U+A7C3", "U+A7C8", "U+A7CA", "U+A7D1", "U+A7D3", "U+A7D5", "U+A7D7", "U+A7D9",
      "U+A7F6", "U+A7F8", "U+A7F9", "U+A7FA", "U+AB30", "U+AB31", "U+AB32", "U+AB33",
      "U+AB34", "U+AB35", "U+AB36", "U+AB37", "U+AB38", "U+AB39", "U+AB3A", "U+AB3B",
      "U+AB3C", "U+AB3D", "U+AB3E", "U+AB3F", "U+AB40", "U+AB41", "U+AB42", "U+AB43",
      "U+AB44", "U+AB45", "U+AB46", "U+AB47", "U+AB48", "U+AB49", "U+AB4A", "U+AB4B",
      "U+AB4C", "U+AB4D", "U+AB4E", "U+AB4F", "U+AB50", "U+AB51", "U+AB52", "U+AB53",
      "U+AB54", "U+AB55", "U+AB56", "U+AB57", "U+AB58", "U+AB59", "U+AB5A", "U+AB5C",
      "U+AB5D", "U+AB5E", "U+AB5F", "U+AB60", "U+AB61", "U+AB62", "U+AB63", "U+AB64",
      "U+AB65", "U+AB66", "U+AB67", "U+AB68", "U+AB70", "U+AB71", "U+AB72", "U+AB73",
      "U+AB74", "U+AB75", "U+AB76", "U+AB77", "U+AB78", "U+AB79", "U+AB7A", "U+AB7B",
      "U+AB7C", "U+AB7D", "U+AB7E", "U+AB7F", "U+AB80", "U+AB81", "U+AB82", "U+AB83",
      "U+AB84", "U+AB85", "U+AB86", "U+AB87", "U+AB88", "U+AB89", "U+AB8A", "U+AB8B",
      "U+AB8C", "U+AB8D", "U+AB8E", "U+AB8F", "U+AB90", "U+AB91", "U+AB92", "U+AB93",
      "U+AB94", "U+AB95", "U+AB96", "U+AB97", "U+AB98", "U+AB99", "U+AB9A", "U+AB9B",
      "U+AB9C", "U+AB9D", "U+AB9E", "U+AB9F", "U+ABA0", "U+ABA1", "U+ABA2", "U+ABA3",
      "U+ABA4", "U+ABA5", "U+ABA6", "U+ABA7", "U+ABA8", "U+ABA9", "U+ABAA", "U+ABAB",
      "U+ABAC", "U+ABAD", "U+ABAE", "U+ABAF", "U+ABB0", "U+ABB1", "U+ABB2", "U+ABB3",
      "U+ABB4", "U+ABB5", "U+ABB6", "U+ABB7", "U+ABB8", "U+ABB9", "U+ABBA", "U+ABBB",
      "U+ABBC", "U+ABBD", "U+ABBE", "U+ABBF", "U+FB00", "U+FB01", "U+FB02", "U+FB03",
      "U+FB04", "U+FB05", "U+FB06", "U+FB13", "U+FB14", "U+FB15", "U+FB16", "U+FB17",
      "U+FF41", "U+FF42", "U+FF43", "U+FF44", "U+FF45", "U+FF46", "U+FF47", "U+FF48",
      "U+FF49", "U+FF4A", "U+FF4B", "U+FF4C", "U+FF4D", "U+FF4E", "U+FF4F", "U+FF50",
      "U+FF51", "U+FF52", "U+FF53", "U+FF54", "U+FF55", "U+FF56", "U+FF57", "U+FF58",
      "U+FF59", "U+FF5A", "U+10428", "U+10429", "U+1042A", "U+1042B", "U+1042C", "U+1042D",
      "U+1042E", "U+1042F", "U+10430", "U+10431", "U+10432", "U+10433", "U+10434", "U+10435",
      "U+10436", "U+10437", "U+10438", "U+10439", "U+1043A", "U+1043B", "U+1043C", "U+1043D",
      "U+1043E", "U+1043F", "U+10440", "U+10441", "U+10442", "U+10443", "U+10444", "U+10445",
      "U+10446", "U+10447", "U+10448", "U+10449", "U+1044A", "U+1044B", "U+1044C", "U+1044D",
      "U+1044E", "U+1044F", "U+104D8", "U+104D9", "U+104DA", "U+104DB", "U+104DC", "U+104DD",
      "U+104DE", "U+104DF", "U+104E0", "U+104E1", "U+104E2", "U+104E3", "U+104E4", "U+104E5",
      "U+104E6", "U+104E7", "U+104E8", "U+104E9", "U+104EA", "U+104EB", "U+104EC", "U+104ED",
      "U+104EE", "U+104EF", "U+104F0", "U+104F1", "U+104F2", "U+104F3", "U+104F4", "U+104F5",
      "U+104F6", "U+104F7", "U+104F8", "U+104F9", "U+104FA", "U+104FB", "U+10597", "U+10598",
      "U+10599", "U+1059A", "U+1059B", "U+1059C", "U+1059D", "U+1059E", "U+1059F", "U+105A0",
      "U+105A1", "U+105A3", "U+105A4", "U+105A5", "U+105A6", "U+105A7", "U+105A8", "U+105A9",
      "U+105AA", "U+105AB", "U+105AC", "U+105AD", "U+105AE", "U+105AF", "U+105B0", "U+105B1",
      "U+105B3", "U+105B4", "U+105B5", "U+105B6", "U+105B7", "U+105B8", "U+105B9", "U+105BB",
      "U+105BC", "U+10780", "U+10783", "U+10784", "U+10785", "U+10787", "U+10788", "U+10789",
      "U+1078A", "U+1078B", "U+1078C", "U+1078D", "U+1078E", "U+1078F", "U+10790", "U+10791",
      "U+10792", "U+10793", "U+10794", "U+10795", "U+10796", "U+10797", "U+10798", "U+10799",
      "U+1079A", "U+1079B", "U+1079C", "U+1079D", "U+1079E", "U+1079F", "U+107A0", "U+107A1",
      "U+107A2", "U+107A3", "U+107A4", "U+107A5", "U+107A6", "U+107A7", "U+107A8", "U+107A9",
      "U+107AA", "U+107AB", "U+107AC", "U+107AD", "U+107AE", "U+107AF", "U+107B0", "U+107B2",
      "U+107B3", "U+107B4", "U+107B5", "U+107B6", "U+107B7", "U+107B8", "U+107B9", "U+107BA",
      "U+10CC0", "U+10CC1", "U+10CC2", "U+10CC3", "U+10CC4", "U+10CC5", "U+10CC6", "U+10CC7",
      "U+10CC8", "U+10CC9", "U+10CCA", "U+10CCB", "U+10CCC", "U+10CCD", "U+10CCE", "U+10CCF",
      "U+10CD0", "U+10CD1", "U+10CD2", "U+10CD3", "U+10CD4", "U+10CD5", "U+10CD6", "U+10CD7",
      "U+10CD8", "U+10CD9", "U+10CDA", "U+10CDB", "U+10CDC", "U+10CDD", "U+10CDE", "U+10CDF",
      "U+10CE0", "U+10CE1", "U+10CE2", "U+10CE3", "U+10CE4", "U+10CE5", "U+10CE6", "U+10CE7",
      "U+10CE8", "U+10CE9", "U+10CEA", "U+10CEB", "U+10CEC", "U+10CED", "U+10CEE", "U+10CEF",
      "U+10CF0", "U+10CF1", "U+10CF2", "U+118C0", "U+118C1", "U+118C2", "U+118C3", "U+118C4",
      "U+118C5", "U+118C6", "U+118C7", "U+118C8", "U+118C9", "U+118CA", "U+118CB", "U+118CC",
      "U+118CD", "U+118CE", "U+118CF", "U+118D0", "U+118D1", "U+118D2", "U+118D3", "U+118D4",
      "U+118D5", "U+118D6", "U+118D7", "U+118D8", "U+118D9", "U+118DA", "U+118DB", "U+118DC",
      "U+118DD", "U+118DE", "U+118DF", "U+16E60", "U+16E61", "U+16E62", "U+16E63", "U+16E64",
      "U+16E65", "U+16E66", "U+16E67", "U+16E68", "U+16E69", "U+16E6A", "U+16E6B", "U+16E6C",
      "U+16E6D", "U+16E6E", "U+16E6F", "U+16E70", "U+16E71", "U+16E72", "U+16E73", "U+16E74",
      "U+16E75", "U+16E76", "U+16E77", "U+16E78", "U+16E79", "U+16E7A", "U+16E7B", "U+16E7C",
      "U+16E7D", "U+16E7E", "U+16E7F", "U+1D41A", "U+1D41B", "U+1D41C", "U+1D41D", "U+1D41E",
      "U+1D41F", "U+1D420", "U+1D421", "U+1D422", "U+1D423", "U+1D424", "U+1D425", "U+1D426",
      "U+1D427", "U+1D428", "U+1D429", "U+1D42A", "U+1D42B", "U+1D42C", "U+1D42D", "U+1D42E",
      "U+1D42F", "U+1D430", "U+1D431", "U+1D432", "U+1D433", "U+1D44E", "U+1D44F", "U+1D450",
      "U+1D451", "U+1D452", "U+1D453", "U+1D454", "U+1D456", "U+1D457", "U+1D458", "U+1D459",
      "U+1D45A", "U+1D45B", "U+1D45C", "U+1D45D", "U+1D45E", "U+1D45F", "U+1D460", "U+1D461",
      "U+1D462", "U+1D463", "U+1D464", "U+1D465", "U+1D466", "U+1D467", "U+1D482", "U+1D483",
      "U+1D484", "U+1D485", "U+1D486", "U+1D487", "U+1D488", "U+1D489", "U+1D48A", "U+1D48B",
      "U+1D48C", "U+1D48D", "U+1D48E", "U+1D48F", "U+1D490", "U+1D491", "U+1D492", "U+1D493",
      "U+1D494", "U+1D495", "U+1D496", "U+1D497", "U+1D498", "U+1D499", "U+1D49A", "U+1D49B",
      "U+1D4B6", "U+1D4B7", "U+1D4B8", "U+1D4B9", "U+1D4BB", "U+1D4BD", "U+1D4BE", "U+1D4BF",
      "U+1D4C0", "U+1D4C1", "U+1D4C2", "U+1D4C3", "U+1D4C5", "U+1D4C6", "U+1D4C7", "U+1D4C8",
      "U+1D4C9", "U+1D4CA", "U+1D4CB", "U+1D4CC", "U+1D4CD", "U+1D4CE", "U+1D4CF", "U+1D4EA",
      "U+1D4EB", "U+1D4EC", "U+1D4ED", "U+1D4EE", "U+1D4EF", "U+1D4F0", "U+1D4F1", "U+1D4F2",
      "U+1D4F3", "U+1D4F4", "U+1D4F5", "U+1D4F6", "U+1D4F7", "U+1D4F8", "U+1D4F9", "U+1D4FA",
      "U+1D4FB", "U+1D4FC", "U+1D4FD", "U+1D4FE", "U+1D4FF", "U+1D500", "U+1D501", "U+1D502",
      "U+1D503", "U+1D51E", "U+1D51F", "U+1D520", "U+1D521", "U+1D522", "U+1D523", "U+1D524",
      "U+1D525", "U+1D526", "U+1D527", "U+1D528", "U+1D529", "U+1D52A", "U+1D52B", "U+1D52C",
      "U+1D52D", "U+1D52E", "U+1D52F", "U+1D530", "U+1D531", "U+1D532", "U+1D533", "U+1D534",
      "U+1D535", "U+1D536", "U+1D537", "U+1D552", "U+1D553", "U+1D554", "U+1D555", "U+1D556",
      "U+1D557", "U+1D558", "U+1D559", "U+1D55A", "U+1D55B", "U+1D55C", "U+1D55D", "U+1D55E",
      "U+1D55F", "U+1D560", "U+1D561", "U+1D562", "U+1D563", "U+1D564", "U+1D565", "U+1D566",
      "U+1D567", "U+1D568", "U+1D569", "U+1D56A", "U+1D56B", "U+1D586", "U+1D587", "U+1D588",
      "U+1D589", "U+1D58A", "U+1D58B", "U+1D58C", "U+1D58D", "U+1D58E", "U+1D58F", "U+1D590",
      "U+1D591", "U+1D592", "U+1D593", "U+1D594", "U+1D595", "U+1D596", "U+1D597", "U+1D598",
      "U+1D599", "U+1D59A", "U+1D59B", "U+1D59C", "U+1D59D", "U+1D59E", "U+1D59F", "U+1D5BA",
      "U+1D5BB", "U+1D5BC", "U+1D5BD", "U+1D5BE", "U+1D5BF", "U+1D5C0", "U+1D5C1", "U+1D5C2",
      "U+1D5C3", "U+1D5C4", "U+1D5C5", "U+1D5C6", "U+1D5C7", "U+1D5C8", "U+1D5C9", "U+1D5CA",
      "U+1D5CB", "U+1D5CC", "U+1D5CD", "U+1D5CE", "U+1D5CF", "U+1D5D0", "U+1D5D1", "U+1D5D2",
      "U+1D5D3", "U+1D5EE", "U+1D5EF", "U+1D5F0", "U+1D5F1", "U+1D5F2", "U+1D5F3", "U+1D5F4",
      "U+1D5F5", "U+1D5F6", "U+1D5F7", "U+1D5F8", "U+1D5F9", "U+1D5FA", "U+1D5FB", "U+1D5FC",
      "U+1D5FD", "U+1D5FE", "U+1D5FF", "U+1D600", "U+1D601", "U+1D602", "U+1D603", "U+1D604",
      "U+1D605", "U+1D606", "U+1D607", "U+1D622", "U+1D623", "U+1D624", "U+1D625", "U+1D626",
      "U+1D627", "U+1D628", "U+1D629", "U+1D62A", "U+1D62B", "U+1D62C", "U+1D62D", "U+1D62E",
      "U+1D62F", "U+1D630", "U+1D631", "U+1D632", "U+1D633", "U+1D634", "U+1D635", "U+1D636",
      "U+1D637", "U+1D638", "U+1D639", "U+1D63A", "U+1D63B", "U+1D656", "U+1D657", "U+1D658",
      "U+1D659", "U+1D65A", "U+1D65B", "U+1D65C", "U+1D65D", "U+1D65E", "U+1D65F", "U+1D660",
      "U+1D661", "U+1D662", "U+1D663", "U+1D664", "U+1D665", "U+1D666", "U+1D667", "U+1D668",
      "U+1D669", "U+1D66A", "U+1D66B", "U+1D66C", "U+1D66D", "U+1D66E", "U+1D66F", "U+1D68A",
      "U+1D68B", "U+1D68C", "U+1D68D", "U+1D68E", "U+1D68F", "U+1D690", "U+1D691", "U+1D692",
      "U+1D693", "U+1D694", "U+1D695", "U+1D696", "U+1D697", "U+1D698", "U+1D699", "U+1D69A",
      "U+1D69B", "U+1D69C", "U+1D69D", "U+1D69E", "U+1D69F", "U+1D6A0", "U+1D6A1", "U+1D6A2",
      "U+1D6A3", "U+1D6A4", "U+1D6A5", "U+1D6C2", "U+1D6C3", "U+1D6C4", "U+1D6C5", "U+1D6C6",
      "U+1D6C7", "U+1D6C8", "U+1D6C9", "U+1D6CA", "U+1D6CB", "U+1D6CC", "U+1D6CD", "U+1D6CE",
      "U+1D6CF", "U+1D6D0", "U+1D6D1", "U+1D6D2", "U+1D6D3", "U+1D6D4", "U+1D6D5", "U+1D6D6",
      "U+1D6D7", "U+1D6D8", "U+1D6D9", "U+1D6DA", "U+1D6DC", "U+1D6DD", "U+1D6DE", "U+1D6DF",
      "U+1D6E0", "U+1D6E1", "U+1D6FC", "U+1D6FD", "U+1D6FE", "U+1D6FF", "U+1D700", "U+1D701",
      "U+1D702", "U+1D703", "U+1D704", "U+1D705", "U+1D706", "U+1D707", "U+1D708", "U+1D709",
      "U+1D70A", "U+1D70B", "U+1D70C", "U+1D70D", "U+1D70E", "U+1D70F", "U+1D710", "U+1D711",
      "U+1D712", "U+1D713", "U+1D714", "U+1D716", "U+1D717", "U+1D718", "U+1D719", "U+1D71A",
      "U+1D71B", "U+1D736", "U+1D737", "U+1D738", "U+1D739", "U+1D73A", "U+1D73B", "U+1D73C",
      "U+1D73D", "U+1D73E", "U+1D73F", "U+1D740", "U+1D741", "U+1D742", "U+1D743", "U+1D744",
      "U+1D745", "U+1D746", "U+1D747", "U+1D748", "U+1D749", "U+1D74A", "U+1D74B", "U+1D74C",
      "U+1D74D", "U+1D74E", "U+1D750", "U+1D751", "U+1D752", "U+1D753", "U+1D754", "U+1D755",
      "U+1D770", "U+1D771", "U+1D772", "U+1D773", "U+1D774", "U+1D775", "U+1D776", "U+1D777",
      "U+1D778", "U+1D779", "U+1D77A", "U+1D77B", "U+1D77C", "U+1D77D", "U+1D77E", "U+1D77F",
      "U+1D780", "U+1D781", "U+1D782", "U+1D783", "U+1D784", "U+1D785", "U+1D786", "U+1D787",
      "U+1D788", "U+1D78A", "U+1D78B", "U+1D78C", "U+1D78D", "U+1D78E", "U+1D78F", "U+1D7AA",
      "U+1D7AB", "U+1D7AC", "U+1D7AD", "U+1D7AE", "U+1D7AF", "U+1D7B0", "U+1D7B1", "U+1D7B2",
      "U+1D7B3", "U+1D7B4", "U+1D7B5", "U+1D7B6", "U+1D7B7", "U+1D7B8", "U+1D7B9", "U+1D7BA",
      "U+1D7BB", "U+1D7BC", "U+1D7BD", "U+1D7BE", "U+1D7BF", "U+1D7C0", "U+1D7C1", "U+1D7C2",
      "U+1D7C4", "U+1D7C5", "U+1D7C6", "U+1D7C7", "U+1D7C8", "U+1D7C9", "U+1D7CB", "U+1DF00",
      "U+1DF01", "U+1DF02", "U+1DF03", "U+1DF04", "U+1DF05", "U+1DF06", "U+1DF07", "U+1DF08",
      "U+1DF09", "U+1DF0B", "U+1DF0C", "U+1DF0D", "U+1DF0E", "U+1DF0F", "U+1DF10", "U+1DF11",
      "U+1DF12", "U+1DF13", "U+1DF14", "U+1DF15", "U+1DF16", "U+1DF17", "U+1DF18", "U+1DF19",
      "U+1DF1A", "U+1DF1B", "U+1DF1C", "U+1DF1D", "U+1DF1E", "U+1E922", "U+1E923", "U+1E924",
      "U+1E925", "U+1E926", "U+1E927", "U+1E928", "U+1E929", "U+1E92A", "U+1E92B", "U+1E92C",
      "U+1E92D", "U+1E92E", "U+1E92F", "U+1E930", "U+1E931", "U+1E932", "U+1E933", "U+1E934",
      "U+1E935", "U+1E936", "U+1E937", "U+1E938", "U+1E939", "U+1E93A", "U+1E93B", "U+1E93C",
      "U+1E93D", "U+1E93E", "U+1E93F", "U+1E940", "U+1E941", "U+1E942", "U+1E943" }

\* the titlecase characters (Unicode category Lt)
TitleCase ==
    { "U+01C5", "U+01C8", "U+01CB", "U+01F2", "U+1F88", "U+1F89", "U+1F8A", "U+1F8B",
      "U+1F8C", "U+1F8D", "U+1F8E", "U+1F8F", "U+1F98", "U+1F99", "U+1F9A", "U+1F9B",
      "U+1F9C", "U+1F9D", "U+1F9E", "U+1F9F", "U+1FA8", "U+1FA9", "U+1FAA", "U+1FAB",
      "U+1FAC", "U+1FAD", "U+1FAE", "U+1FAF", "U+1FBC", "U+1FCC", "U+1FFC" }

Min(a, b) == IF a < b THEN a ELSE b

\* s[a:b] for 0 <= a, with Python's clipping
Slice(s, a, b) == SubSeq(s, a + 1, Min(b, Len(s)))

\* s.startswith(p)
StartsWith(s, p) == Len(p) <= Len(s) /\ SubSeq(s, 1, Len(p)) = p

\* s.find(p): 0-based index of the first occurrence of p in s, or -1
Find(s, p) ==
    LET hits == {j \in 0..(Len(s) - Len(p)) : SubSeq(s, j + 1, j + Len(p)) = p}
    IN IF hits = {} THEN -1 ELSE CHOOSE j \in hits : \A h \in hits : j <= h

\* p in s
Contains(s, p) == Find(s, p) >= 0

\* s.lstrip(chars) / s.rstrip(chars) / s.strip(chars)
RECURSIVE LStripChars(_, _)
LStripChars(s, chars) ==
    IF s # <<>> /\ Head(s) \in chars THEN LStripChars(Tail(s), chars) ELSE s

RECURSIVE RStripChars(_, _)
RStripChars(s, chars) ==
    IF s # <<>> /\ s[Len(s)] \in chars
    THEN RStripChars(SubSeq(s, 1, Len(s) - 1), chars) ELSE s

StripChars(s, chars) == RStripChars(LStripChars(s, chars), chars)

\* s.strip()
Strip(s) == StripChars(s, WhiteSpace)

\* s.split(): the maximal runs of non-whitespace characters
RECURSIVE SplitWS(_)
SplitWS(s) ==
    LET t == LStripChars(s, WhiteSpace)
        ends == {j \in 1..Len(t) : t[j] \in WhiteSpace}
        e == IF ends = {} THEN Len(t) + 1
             ELSE CHOOSE j \in ends : \A h \in ends : j <= h
    IN IF t = <<>> THEN <<>>
       ELSE <<SubSeq(t, 1, e - 1)>> \o SplitWS(SubSeq(t, e, Len(t)))

\* s.split(sep), sep one character
RECURSIVE SplitChar(_, _)
SplitChar(s, sep) ==
    LET j == Find(s, <<sep>>)
    IN IF j < 0 THEN <<s>>
       ELSE <<Slice(s, 0, j)>> \o SplitChar(Slice(s, j + 1, Len(s)), sep)

\* sep.join(parts)
RECURSIVE Join(_, _)
Join(sep, parts) ==
    IF parts = <<>> THEN <<>>
    ELSE IF Len(parts) = 1 THEN parts[1]
    ELSE parts[1] \o sep \o Join(sep, Tail(parts))

\* s.isupper(): no lowercase and no titlecase character and at least one
\* uppercase one
IsUpper(s) ==
    /\ \A j \in 1..Len(s) : s[j] \notin LowerCase /\ s[j] \notin TitleCase
    /\ \E j \in 1..Len(s) : s[j] \in UpperCase

\* truthiness of an Optional[str]
Truthy(v) == v # None /\ v # <<>>

\* ------------------------------------------------------------------ dict

\* k in d
HasKey(d, key) == \E j \in 1..Len(d) : d[j][1] = key

KeyPos(d, key) == CHOOSE j \in 1..Len(d) : d[j][1] = key

\* d[k]
Get(d, key) == d[KeyPos(d, key)][2]

\* DictSet as a list append: a key seen again is entered again
DictSet_NoDedup(d, key, val) == Append(d, <<key, val>>)

\* DictSet with a key seen again moved to the end
DictSet_MoveToEnd(d, key, val) ==
    Append(SelectSeq(d, LAMBDA e : e[1] # key), <<key, val>>)

\* d[k] = v: an existing key keeps its position, a new one goes last
DictSet(d, key, val) ==
    IF HasKey(d, key)
    THEN [d EXCEPT ![KeyPos(d, key)] = <<key, val>>]
    ELSE Append(d, <<key, val>>)

\* ------------------------------------------------------------------ page

(* A parsed page is the sequence of its elements in document order.  An    *)
(* element has a kind, the selector it answers to ("h1", "group" for       *)
(* h3.erpl_title-h3.mt-1.sln-political-group-name, "country" for           *)
(* div.erpl_title-h3.mt-1.mb-1, "email" for a.link_email, "x" for          *)
(* a.link_twitt, "other" for anything else), its text nodes in order, and  *)
(* its href attribute (None when it has none).                             *)
Node(kind, strings, href) == [kind |-> kind, strings |-> strings, href |-> href]

NoNode == Node("None", <<>>, None)

\* soup.find(...) / soup.select_one(...): the first element of that kind, or None
SelectOne(pg, kind) ==
    LET hits == {j \in 1..Len(pg) : pg[j].kind = kind}
    IN IF hits = {} THEN NoNode
       ELSE pg[CHOOSE j \in hits : \A h \in hits : j <= h]

\* the strings get_text joins: with strip, each stripped and the empty ones dropped
RECURSIVE AllStrings(_, _)
AllStrings(strings, strip) ==
    IF strings = <<>> THEN <<>>
    ELSE LET s == IF strip THEN Strip(Head(strings)) ELSE Head(strings)
         IN (IF strip /\ s = <<>> THEN <<>> ELSE <<s>>)
            \o AllStrings(Tail(strings), strip)

\* el.get_text(sep, strip=strip)
GetText(el, sep, strip) == Join(sep, AllStrings(el.strings, strip))

\* soup.find_all(string=True): every text node of the page, in document order
RECURSIVE FindAllStrings(_)
FindAllStrings(pg) ==
    IF pg = <<>> THEN <<>> ELSE Head(pg).strings \o FindAllStrings(Tail(pg))

\* soup.get_text()
SoupText(pg) == Join(<<>>, FindAllStrings(pg))

GROUP_OF_THE == <<"G", "r", "o", "u", "p", " ", "o", "f", " ", "t", "h", "e">>
MEP_DASH == <<"M", "E", "P", "-">>
MAILTO == <<"m", "a", "i", "l", "t", "o", ":">>
SEPARATOR == <<" ", "-", " ">>

\* ------------------------------------------------------------------ urlparse

\* urllib.parse.scheme_chars
SchemeChars == AsciiLetters \cup AsciiDigits \cup {"+", "-", "."}

\* urllib.parse._UNSAFE_URL_BYTES_TO_REMOVE
UNSAFE_URL_BYTES_TO_REMOVE == {"\t", "\r", "\n"}

\* urllib.parse.uses_params
USES_PARAMS ==
    { <<>>, <<"f", "t", "p">>, <<"h", "d", "l">>,
      <<"p", "r", "o", "s", "p", "e", "r", "o">>, <<"h", "t", "t", "p">>,
      <<"i", "m", "a", "p">>, <<"h", "t", "t", "p", "s">>,
      <<"s", "h", "t", "t", "p">>, <<"r", "t", "s", "p">>,
      <<"r", "t", "s", "p", "s">>, <<"r", "t", "s", "p", "u">>,
      <<"s", "i", "p">>, <<"s", "i", "p", "s">>, <<"m", "m", "s">>,
      <<"s", "f", "t", "p">>, <<"t", "e", "l">> }

\* urllib.parse._WHATWG_C0_CONTROL_OR_SPACE: what urlsplit strips from the left of a URL
WHATWG_C0_CONTROL_OR_SPACE ==
    { "U+0000", "U+0001", "U+0002", "U+0003", "U+0004", "U+0005", "U+0006", "U+0007",
      "U+0008", "\t", "\n", "U+000B", "\f", "\r", "U+000E", "U+000F",
      "U+0010", "U+0011", "U+0012", "U+0013", "U+0014", "U+0015", "U+0016", "U+0017",
      "U+0018", "U+0019", "U+001A", "U+001B", "U+001C", "U+001D", "U+001E", "U+001F",
      " " }

\* the characters whose NFKC normalization holds one of / ? # @ : (what
\* urllib.parse._checknetloc rejects in a netloc)
NFKC_DELIMITER_CHARS ==
    { "U+2047", "U+2048", "U+2049", "U+2100", "U+2101", "U+2105", "U+2106", "U+2A74",
      "U+FE13", "U+FE16", "U+FE55", "U+FE56", "U+FE5F", "U+FE6B", "U+FF03", "U+FF0F",
      "U+FF1A", "U+FF1F", "U+FF20" }

\* what the try block of extract_x_handle_from_url gives when urlparse raises
ValueError == <<"ValueError">>

\* first index (0-based) of a character of chars in s, or Len(s)
FirstOf(s, chars) ==
    LET hits == {j \in 1..Len(s) : s[j] \in chars}
    IN IF hits = {} THEN Len(s)
       ELSE (CHOOSE j \in hits : \A h \in hits : j <= h) - 1

\* s.find(p, start) for 0 <= start
FindFrom(s, p, start) ==
    LET hits == {j \in start..(Len(s) - Len(p)) : SubSeq(s, j + 1, j + Len(p)) = p}
    IN IF hits = {} THEN -1 ELSE CHOOSE j \in hits : \A h \in hits : j <= h

\* s.rfind(p)
FindLast(s, p) ==
    LET hits == {j \in 0..(Len(s) - Len(p)) : SubSeq(s, j + 1, j + Len(p)) = p}
    IN IF hits = {} THEN -1 ELSE CHOOSE j \in hits : \A h \in hits : j >= h

\* s.partition(sep)[0] and s.partition(sep)[2], sep one character
PartitionHead(s, sep) ==
    LET j == Find(s, <<sep>>) IN IF j < 0 THEN s ELSE Slice(s, 0, j)
PartitionTail(s, sep) ==
    LET j == Find(s, <<sep>>) IN IF j < 0 THEN <<>> ELSE Slice(s, j + 1, Len(s))

\* s with every occurrence of a character of chars removed
RemoveChars(s, chars) == SelectSeq(s, LAMBDA c : c \notin chars)

\* s.lower() for a str of scheme characters
LowerChar(c) ==
    IF \E j \in 1..Len(ASCII_UPPER) : ASCII_UPPER[j] = c
    THEN ASCII_LOWER[CHOOSE j \in 1..Len(ASCII_UPPER) : ASCII_UPPER[j] = c]
    ELSE c
Lower(s) == [j \in 1..Len(s) |-> LowerChar(s[j])]

\* int(s, 10) for a str of ASCII digits
RECURSIVE DecValue(_)
DecValue(s) ==
    IF s = <<>> THEN 0
    ELSE 10 * DecValue(SubSeq(s, 1, Len(s) - 1))
         + (CHOOSE n \in 0..9 : ASCII_DIGITS[n + 1] = s[Len(s)])

\* ipaddress.IPv4Address._parse_octet does not raise
ParseOctetOk(octet_str) ==
    /\ octet_str # <<>>
    /\ \A j \in 1..Len(octet_str) : octet_str[j] \in AsciiDigits
    /\ Len(octet_str) <= 3
    /\ ~(octet_str # <<"0">> /\ octet_str[1] = "0")
    /\ DecValue(octet_str) <= 255

\* ipaddress.IPv4Address(ip_str) does not raise
IsIPv4(ip_str) ==
    /\ ip_str # <<>>
    /\ ~Contains(ip_str, <<"/">>)
    /\ LET octets == SplitChar(ip_str, ".")
       IN Len(octets) = 4 /\ \A j \in 1..4 : ParseOctetOk(octets[j])

\* ipaddress.IPv6Address._parse_hextet does not raise
ParseHextetOk(hextet_str) ==
    /\ \A j \in 1..Len(hextet_str) : hextet_str[j] \in HexDigits
    /\ Len(hextet_str) <= 4
    /\ hextet_str # <<>>

\* ipaddress.IPv6Address._ip_int_from_string: the parts with an IPv4-style
\* suffix replaced by the two hextets it stands for
Ipv6Parts(parts) ==
    IF Contains(parts[Len(parts)], <<".">>)
    THEN SubSeq(parts, 1, Len(parts) - 1) \o << <<"0">>, <<"0">> >>
    ELSE parts

\* the values skip_index takes: the empty parts that are neither first nor last
SkipIndexes(parts) == {j \in 1..(Len(parts) - 2) : parts[j + 1] = <<>>}

\* the checks on parts that hold one "::", at skip_index
PartsWithSkipOk(parts, skip_index) ==
    LET n == Len(parts)
        parts_hi == IF parts[1] = <<>> THEN skip_index - 1 ELSE skip_index
        parts_lo == IF parts[n] = <<>> THEN n - skip_index - 2 ELSE n - skip_index - 1
    IN /\ parts[1] = <<>> => parts_hi = 0
       /\ parts[n] = <<>> => parts_lo = 0
       /\ 8 - (parts_hi + parts_lo) >= 1
       /\ \A j \in 1..parts_hi : ParseHextetOk(parts[j])
       /\ \A j \in (n - parts_lo + 1)..n : ParseHextetOk(parts[j])

\* the checks on the parts once the suffix is replaced
HextetPartsOk(parts) ==
    /\ Len(parts) <= 9
    /\ IF SkipIndexes(parts) # {}
       THEN /\ Cardinality(SkipIndexes(parts)) = 1
            /\ PartsWithSkipOk(parts, CHOOSE j \in SkipIndexes(parts) : TRUE)
       ELSE /\ Len(parts) = 8
            /\ \A j \in 1..Len(parts) : ParseHextetOk(parts[j])

\* the checks on ip_str.split(":")
SplitPartsOk(parts) ==
    /\ Len(parts) >= 3
    /\ Contains(parts[Len(parts)], <<".">>) => IsIPv4(parts[Len(parts)])
    /\ HextetPartsOk(Ipv6Parts(parts))

\* ipaddress.IPv6Address._ip_int_from_string does not raise
Ipv6PartsOk(ip_str) == ip_str # <<>> /\ SplitPartsOk(SplitChar(ip_str, ":"))

\* ipaddress.IPv6Address(address) does not raise
IsIPv6(address) ==
    /\ ~Contains(address, <<"/">>)
    /\ Contains(address, <<"%">>) =>
          /\ PartitionTail(address, "%") # <<>>
          /\ ~Contains(PartitionTail(address, "%"), <<"%">>)
    /\ Ipv6PartsOk(PartitionHead(address, "%"))

\* urllib.parse._check_bracketed_host(hostname) does not raise: an IPvFuture
\* address matching \Av[a-fA-F0-9]+\..+\Z, or else an IPv6 address
BracketedHostOk(hostname) ==
    IF StartsWith(hostname, <<"v">>)
    THEN LET dot == Find(hostname, <<".">>)
         IN /\ dot >= 2
            /\ \A j \in 2..dot : hostname[j] \in HexDigits
            /\ Len(hostname) > dot + 1
            /\ ~Contains(Slice(hostname, dot + 1, Len(hostname)), <<"\n">>)
    ELSE IsIPv6(hostname)

\* urllib.parse._checknetloc(netloc) does not raise
CheckNetlocOk(netloc) == \A j \in 1..Len(netloc) : netloc[j] \notin NFKC_DELIMITER_CHARS

\* urlsplit: the url with the leading control characters and spaces stripped
\* and the unsafe characters removed
CleanUrl(url) ==
    RemoveChars(LStripChars(url, WHATWG_C0_CONTROL_OR_SPACE), UNSAFE_URL_BYTES_TO_REMOVE)

\* urlsplit: the url starts with a scheme and ":"
HasScheme(url) ==
    /\ Find(url, <<":">>) > 0
    /\ url[1] \in AsciiLetters
    /\ \A j \in 1..Find(url, <<":">>) : url[j] \in SchemeChars

\* urlsplit: the scheme, and what follows it
SchemeOf(url) ==
    IF HasScheme(url) THEN Lower(Slice(url, 0, Find(url, <<":">>))) ELSE <<>>
AfterScheme(url) ==
    IF HasScheme(url) THEN Slice(url, Find(url, <<":">>) + 1, Len(url)) ELSE url

\* urlsplit with _splitnetloc: the netloc, and what follows it
NetlocOf(url) ==
    IF StartsWith(url, <<"/", "/">>)
    THEN LET r == Slice(url, 2, Len(url)) IN Slice(r, 0, FirstOf(r, {"/", "?", "#"}))
    ELSE <<>>
AfterNetloc(url) ==
    IF StartsWith(url, <<"/", "/">>)
    THEN LET r == Slice(url, 2, Len(url)) IN Slice(r, FirstOf(r, {"/", "?", "#"}), Len(r))
    ELSE url

\* urlsplit raises ValueError on the netloc
NetlocRaises(netloc) ==
    \/ Contains(netloc, <<"[">>) # Contains(netloc, <<"]">>)
    \/ /\ Contains(netloc, <<"[">>)
       /\ Contains(netloc, <<"]">>)
       /\ ~BracketedHostOk(PartitionHead(PartitionTail(netloc, "["), "]"))
    \/ ~CheckNetlocOk(netloc)

\* urlsplit from the scheme on: url is what follows the scheme
SplitAfterScheme(scheme, url) ==
    [raises |-> NetlocRaises(NetlocOf(url)),
     scheme |-> scheme,
     path |-> PartitionHead(PartitionHead(AfterNetloc(url), "#"), "?")]

SplitClean(url) == SplitAfterScheme(SchemeOf(url), AfterScheme(url))

\* urllib.parse.urlsplit(url): whether it raises ValueError, and the scheme
\* and the path it gives
urlsplit(url) == SplitClean(CleanUrl(url))

\* urllib.parse._splitparams(url)[0], for a url that holds ";"
splitparams(url) ==
    IF Contains(url, <<"/">>)
    THEN LET at == FindFrom(url, <<";">>, FindLast(url, <<"/">>))
         IN IF at < 0 THEN url ELSE Slice(url, 0, at)
    ELSE Slice(url, 0, Find(url, <<";">>))

\* urlparse from the result of urlsplit: the path, or ValueError
PathOfSplit(split) ==
    IF split.raises THEN ValueError
    ELSE IF split.scheme \in USES_PARAMS /\ Contains(split.path, <<";">>)
    THEN splitparams(split.path)
    ELSE split.path

\* urlparse(url).path, or ValueError when urlparse raises it
UrlPath(url) == PathOfSplit(urlsplit(url))

\* lines 110-117: the handle from what urlparse gave
HandleOfPath(path) ==
    IF path = ValueError THEN None
    ELSE IF path = <<>> THEN None
    ELSE IF SplitChar(StripChars(path, {"/"}), "/")[1] = <<>> THEN None
    ELSE SplitChar(StripChars(path, {"/"}), "/")[1]

\* lines 102-117
extract_x_handle_from_url(x_url) ==
    IF x_url = <<>> THEN None ELSE HandleOfPath(UrlPath(x_url))

\* ------------------------------------------------------------------ parse_mep_profile

\* lines 141-146: the first text node that passes the scan, or "" when none does
RECURSIVE ScanName(_, _)
ScanName(candidates, soupText) ==
    IF candidates = <<>> THEN <<>>
    ELSE LET s == Strip(Head(candidates))
         IN IF /\ Len(SplitWS(s)) >= 2
               /\ ~IsUpper(s)
               /\ Contains(soupText, GROUP_OF_THE)
            THEN s
            ELSE ScanName(Tail(candidates), soupText)

\* ParseName without the last resort
ParseName_NoPlaceholder(mep_id, pg) ==
    LET h1 == SelectOne(pg, "h1")
    IN IF h1 # NoNode /\ GetText(h1, <<>>, TRUE) # <<>>
       THEN GetText(h1, <<>>, TRUE)
       ELSE ScanName(FindAllStrings(pg), SoupText(pg))

\* lines 131-150
ParseName(mep_id, pg) ==
    LET h1 == SelectOne(pg, "h1")
        name == IF h1 # NoNode /\ GetText(h1, <<>>, TRUE) # <<>>
                THEN GetText(h1, <<>>, TRUE)
                ELSE ScanName(FindAllStrings(pg), SoupText(pg))
    IN IF name = <<>> THEN MEP_DASH \o mep_id ELSE name

\* lines 157-158
ParseGroup(pg) ==
    LET political_group_el == SelectOne(pg, "group")
    IN IF political_group_el # NoNode
       THEN GetText(political_group_el, <<>>, TRUE) ELSE None

\* ParseCountry splitting at the last separator (rsplit)
ParseCountry_LastSeparator(country_block_el) ==
    LET raw_country_block == IF country_block_el # NoNode
                             THEN GetText(country_block_el, <<" ">>, TRUE)
                             ELSE None
        cleaned == Join(<<" ">>, SplitWS(raw_country_block))
        at == FindLast(cleaned, SEPARATOR)
    IN IF ~Truthy(raw_country_block)
       THEN [country |-> None, national_party |-> None, raw |-> raw_country_block]
       ELSE IF at >= 0
       THEN [country |-> Strip(Slice(cleaned, 0, at)),
             national_party |-> Strip(Slice(cleaned, at + Len(SEPARATOR), Len(cleaned))),
             raw |-> raw_country_block]
       ELSE [country |-> cleaned, national_party |-> None, raw |-> raw_country_block]

\* lines 162-177, given the element the selector found (NoNode for None)
ParseCountry(country_block_el) ==
    LET raw_country_block == IF country_block_el # NoNode
                             THEN GetText(country_block_el, <<" ">>, TRUE)
                             ELSE None
        cleaned == Join(<<" ">>, SplitWS(raw_country_block))
        at == Find(cleaned, SEPARATOR)
    IN IF ~Truthy(raw_country_block)
       THEN [country |-> None, national_party |-> None, raw |-> raw_country_block]
       ELSE IF at >= 0
       THEN [country |-> Strip(Slice(cleaned, 0, at)),
             national_party |-> Strip(Slice(cleaned, at + Len(SEPARATOR), Len(cleaned))),
             raw |-> raw_country_block]
       ELSE [country |-> cleaned, national_party |-> None, raw |-> raw_country_block]

\* lines 182-187
ParseEmail(pg) ==
    LET email_el == SelectOne(pg, "email")
    IN IF email_el # NoNode /\ email_el.href # None /\ StartsWith(email_el.href, MAILTO)
       THEN Strip(Slice(email_el.href, Len(MAILTO), Len(email_el.href)))
       ELSE None

\* lines 191-196
ParseX(pg) ==
    LET x_el == SelectOne(pg, "x")
    IN IF x_el # NoNode /\ x_el.href # None
       THEN [x_url |-> x_el.href, x_handle |-> extract_x_handle_from_url(x_el.href)]
       ELSE [x_url |-> None, x_handle |-> None]

\* lines 127-209: the MEP built from a fetched page
parse_mep_profile(mep_id, url, pg) ==
    LET c == ParseCountry(SelectOne(pg, "country"))
        x == ParseX(pg)
    IN [mep_id |-> mep_id,
        name |-> ParseName(mep_id, pg),
        profile_url |-> url,
        email |-> ParseEmail(pg),
        x_url |-> x.x_url,
        x_handle |-> x.x_handle,
        political_group |-> ParseGroup(pg),
        country |-> c.country,
        national_party |-> c.national_party,
        country_and_national_party |-> c.raw]

\* ------------------------------------------------------------------ discovery

BASE_URL == <<"h", "t", "t", "p", "s", ":", "/", "/", "w", "w", "w", ".", "e", "u", "r", "o", "p", "a", "r", "l", ".", "e", "u", "r", "o", "p", "a", ".", "e", "u">>
MEPS_EN == <<"/", "m", "e", "p", "s", "/", "e", "n", "/">>
FULL_LIST_URL == BASE_URL \o MEPS_EN \o <<"f", "u", "l", "l", "-", "l", "i", "s", "t", "/", "a", "l", "l">>

\* re.search(r"/meps/en/(\d+)", href).group(1), or "" when there is no match
SearchMepId(href) ==
    LET n == Len(MEPS_EN)
        hits == {j \in 0..(Len(href) - n - 1) :
                    /\ SubSeq(href, j + 1, j + n) = MEPS_EN
                    /\ href[j + n + 1] \in Digits}
        at == CHOOSE j \in hits : \A h \in hits : j <= h
        rest == Slice(href, at + n, Len(href))
    IN IF hits = {} THEN <<>>
       ELSE Slice(rest, 0, FirstOf(rest, {rest[j] : j \in 1..Len(rest)} \ Digits))

\* urljoin(BASE_URL, f"/meps/en/{mep_id}")
ProfileUrl(mep_id) == BASE_URL \o MEPS_EN \o mep_id

\* lines 80-96: the loop over the <a href> tags, from the dict built so far
RECURSIVE CollectMeps(_, _)
CollectMeps(links, meps) ==
    IF links = <<>> THEN meps
    ELSE LET href == Head(links)
             mep_id == SearchMepId(href)
         IN IF ~Contains(href, MEPS_EN) \/ mep_id = <<>>
            THEN CollectMeps(Tail(links), meps)
            ELSE CollectMeps(Tail(links), DictSet(meps, mep_id, ProfileUrl(mep_id)))

\* ------------------------------------------------------------------ harvest run

Ev(op, arg, n) == [op |-> op, arg |-> arg, n |-> n]

FIELDNAMES == <<"mep_id", "name", "profile_url", "email", "x_url", "x_handle",
                "political_group", "country", "national_party",
                "country_and_national_party">>

\* csv.DictWriter.writerow(asdict(mep)): the cells in field order, None written empty
CsvRow(m) == [j \in 1..Len(FIELDNAMES) |->
                 IF m[FIELDNAMES[j]] = None THEN <<>> ELSE m[FIELDNAMES[j]]]

NoFile == [exists |-> FALSE, header |-> <<>>, rows |-> <<>>]
OldFile == [exists |-> TRUE, header |-> <<"old">>, rows |-> <<>>]

SeqsUpTo(S, n) == UNION {[1..m -> S] : m \in 0..n}

\* hrefs a roster page may carry
HrefPool ==
    { MEPS_EN \o <<"1", "0", "0">>,
      MEPS_EN \o <<"1", "0", "0", "/", "J", "A", "N", "E", "_", "D", "O", "E", "/", "h", "o", "m", "e">>,
      MEPS_EN \o <<"2", "0", "0">>,
      MEPS_EN \o <<"U+0663", "1">>,
      MEPS_EN \o <<"f", "u", "l", "l", "-", "l", "i", "s", "t", "/", "a", "l", "l">>,
      <<"/", "a", "b", "o", "u", "t">> }

\* profile pages the site may serve
PageFull ==
    << Node("h1", <<<<"J", "a", "n", "e", " ", "D", "O", "E">>>>, None),
       Node("group", <<<<"G", "r", "o", "u", "p", " ", "o", "f", " ", "t", "h", "e", " ", "E", "P", "P">>>>, None),
       Node("country", <<<<"M", "a", "l", "t", "a", " ", "-", " ", "P", "N">>>>, None),
       Node("email", <<>>, <<"m", "a", "i", "l", "t", "o", ":", "j", "d", "@", "e", "p", ".", "e", "u">>),
       Node("x", <<>>, <<"h", "t", "t", "p", "s", ":", "/", "/", "x", ".", "c", "o", "m", "/", "J", "a", "n", "e", "D">>) >>
PageBare == << Node("other", <<<<"H", "o", "m", "e">>>>, None) >>
PageEmptyX == << Node("h1", <<<<"J", "a", "n", "e", " ", "D", "O", "E">>>>, None), Node("x", <<>>, <<>>) >>
PagePool == {PageFull, PageBare, PageEmptyX}

InitUnusedParse ==
    /\ page = <<>> /\ mep = <<>> /\ block_el = NoNode /\ block_out = <<>>
InitUnusedMerge ==
    /\ base_data = <<>> /\ base0 = <<>> /\ overrides = <<>> /\ index = <<>>
    /\ ov_pos = 0 /\ out_file = <<>>
InitUnusedHarvest ==
    /\ only_with_x = FALSE /\ roster = <<>> /\ meps_meta = <<>> /\ i = 0
    /\ fetched = <<>> /\ results = <<>> /\ trace = <<>> /\ file = NoFile

parseVars == <<page, mep, block_el, block_out>>
mergeVars == <<base_data, base0, overrides, index, ov_pos, out_file>>
harvestVars == <<only_with_x, roster, meps_meta, i, fetched, results, trace, file>>

Init ==
    /\ pc = "start"
    /\ only_with_x \in BOOLEAN
    /\ file \in {NoFile, OldFile}
    /\ roster = <<>> /\ meps_meta = <<>> /\ i = 0
    /\ fetched = <<>> /\ results = <<>> /\ trace = <<>>
    /\ InitUnusedParse /\ InitUnusedMerge

\* DiscoverFail with the failure swallowed: the run goes on with an empty roster
DiscoverFail_Swallowed ==
    /\ pc = "start"
    /\ trace' = trace \o << Ev("INFO_list", FULL_LIST_URL, 0),
                            Ev("GET", FULL_LIST_URL, 0),
                            Ev("ERROR", FULL_LIST_URL, 0) >>
    /\ pc' = "loop"
    /\ UNCHANGED <<only_with_x, roster, meps_meta, i, fetched, results, file>>
    /\ UNCHANGED <<parseVars, mergeVars>>

\* lines 68-71 with fetch (49-60) failing: SystemExit leaves main
DiscoverFail ==
    /\ pc = "start"
    /\ trace' = trace \o << Ev("INFO_list", FULL_LIST_URL, 0),
                            Ev("GET", FULL_LIST_URL, 0),
                            Ev("ERROR", FULL_LIST_URL, 0) >>
    /\ pc' = "fatal"
    /\ UNCHANGED <<only_with_x, roster, meps_meta, i, fetched, results, file>>
    /\ UNCHANGED <<parseVars, mergeVars>>

\* lines 63-99 and 214-215, the roster page fetched
Discover ==
    /\ pc = "start"
    /\ \E links \in SeqsUpTo(HrefPool, MaxLinks) :
        /\ roster' = links
        /\ meps_meta' = CollectMeps(links, <<>>)
        /\ trace' = trace \o << Ev("INFO_list", FULL_LIST_URL, 0),
                                Ev("GET", FULL_LIST_URL, 0),
                                Ev("INFO_found", <<>>, Len(meps_meta')) >>
    /\ results' = <<>>
    /\ pc' = "loop"
    /\ UNCHANGED <<only_with_x, i, fetched, file>>
    /\ UNCHANGED <<parseVars, mergeVars>>

\* lines 217-220 with parse_mep_profile returning None (122-125, fetch failing)
IterateFetchFail ==
    /\ pc = "loop"
    /\ i < Len(meps_meta)
    /\ LET mep_id == meps_meta[i + 1][1]
           url == meps_meta[i + 1][2]
       IN trace' = trace \o << Ev("INFO_mep", mep_id, 0),
                               Ev("GET", url, 0),
                               Ev("ERROR", url, 0) >>
    /\ i' = i + 1
    /\ UNCHANGED <<pc, only_with_x, roster, meps_meta, fetched, results, file>>
    /\ UNCHANGED <<parseVars, mergeVars>>

\* Filtered testing x_url against None only
Filtered_NoneOnly(m) == only_with_x /\ m.x_url = None

\* line 222: only_with_x and not mep.x_url
Filtered(m) == only_with_x /\ ~Truthy(m.x_url)

\* lines 217-231 with the profile page fetched
IterateFetchOk ==
    /\ pc = "loop"
    /\ i < Len(meps_meta)
    /\ \E pg \in PagePool :
        LET mep_id == meps_meta[i + 1][1]
            url == meps_meta[i + 1][2]
            m == parse_mep_profile(mep_id, url, pg)
        IN /\ fetched' = Append(fetched, m)
           /\ results' = IF Filtered(m) THEN results ELSE Append(results, m)
           /\ trace' = trace
                \o << Ev("INFO_mep", mep_id, 0), Ev("GET", url, 0) >>
                \o (IF Filtered(m) THEN << Ev("DEBUG_skip", mep_id, 0) >> ELSE <<>>)
                \o (IF (i + 1) % 10 = 0 THEN << Ev("INFO_processed", <<>>, i + 1) >> ELSE <<>>)
                \o << Ev("sleep", <<>>, 0) >>
    /\ i' = i + 1
    /\ UNCHANGED <<pc, only_with_x, roster, meps_meta, file>>
    /\ UNCHANGED <<parseVars, mergeVars>>

\* lines 233-234 and 273: the loop is over, scrape_all_meps returns
ScrapeDone ==
    /\ pc = "loop"
    /\ i = Len(meps_meta)
    /\ trace' = Append(trace, Ev("INFO_finished", <<>>, Len(results)))
    /\ pc' = "write"
    /\ UNCHANGED <<only_with_x, roster, meps_meta, i, fetched, results, file>>
    /\ UNCHANGED <<parseVars, mergeVars>>

\* WriteCsvEmpty writing a file that holds the header alone
WriteCsvEmpty_HeaderOnly ==
    /\ pc = "write"
    /\ results = <<>>
    /\ file' = [exists |-> TRUE, header |-> FIELDNAMES, rows |-> <<>>]
    /\ trace' = Append(trace, Ev("WARN_empty", <<>>, 0))
    /\ pc' = "done"
    /\ UNCHANGED <<only_with_x, roster, meps_meta, i, fetched, results>>
    /\ UNCHANGED <<parseVars, mergeVars>>

\* lines 239-241: write_csv with nothing to write
WriteCsvEmpty ==
    /\ pc = "write"
    /\ results = <<>>
    /\ trace' = Append(trace, Ev("WARN_empty", <<>>, 0))
    /\ pc' = "done"
    /\ UNCHANGED <<only_with_x, roster, meps_meta, i, fetched, results, file>>
    /\ UNCHANGED <<parseVars, mergeVars>>

\* lines 243-251: write_csv with records
WriteCsv ==
    /\ pc = "write"
    /\ results # <<>>
    /\ file' = [exists |-> TRUE,
                header |-> FIELDNAMES,
                rows |-> [j \in 1..Len(results) |-> CsvRow(results[j])]]
    /\ trace' = Append(trace, Ev("INFO_wrote", <<>>, Len(results)))
    /\ pc' = "done"
    /\ UNCHANGED <<only_with_x, roster, meps_meta, i, fetched, results>>
    /\ UNCHANGED <<parseVars, mergeVars>>

Next ==
    \/ DiscoverFail
    \/ Discover
    \/ IterateFetchFail
    \/ IterateFetchOk
    \/ ScrapeDone
    \/ WriteCsvEmpty
    \/ WriteCsv

Spec == Init /\ [][Next]_vars

\* ------------------------------------------------------------------ parse_mep_profile alone

\* elements a profile page may be made of
NodePool ==
    { Node("h1", <<<<"A", "n", "n", " ", "B">>>>, None),
      Node("h1", <<<<" ">>>>, None),
      Node("group", <<<<"G", "r", "o", "u", "p", " ", "o", "f", " ", "t", "h", "e", " ", "E">>>>, None),
      Node("other", <<<<"A", "B", " ", "U+00C9">>>>, None),
      Node("other", <<<<"A", "B", " ", "U+00E9">>>>, None),
      Node("other", <<<<"J", "o", " ", "D", "o">>>>, None),
      Node("other", <<<<"J", "o", "\f", "D", "o">>>>, None),
      Node("other", <<<<"H", "o", "m", "e">>>>, None),
      Node("other", <<<<"G", "r", "o", "u", "p", " ", "o", "f">>>>, None),
      Node("other", <<<<" ", "t", "h", "e">>>>, None),
      Node("country", <<<<"M", "T", " ", "-", " ", "P", "N">>>>, None),
      Node("email", <<>>, <<"m", "a", "i", "l", "t", "o", ":", "a", "@", "b">>),
      Node("email", <<>>, <<"m", "a", "i", "l", "t", "o", ":", "a", "@", "b", "U+00A0">>),
      Node("email", <<>>, <<"a", "@", "b">>),
      Node("x", <<>>, <<"h", "t", "t", "p", "s", ":", "/", "/", "x", ".", "c", "o", "m", "/", "A", "n", "n", "B">>),
      Node("x", <<>>, <<" ", "h", "t", "t", "p", "s", ":", "/", "/", "x", ".", "c", "o", "m", "/", "A", ";", "v">>),
      Node("x", <<>>, <<"h", "t", "t", "p", "s", ":", "/", "/", "[", "x", ".", "c", "o", "m", "/", "A">>),
      Node("x", <<>>, None) }

MepIdPool == { <<"7">>, <<"1", "0", "0">> }

BlockChars == {"a", "-", " ", "\n", "U+00A0"}

\* country/party elements: absent, without text, with one text node of any
\* characters, or with several short text nodes
BlockEls ==
    {NoNode, Node("country", <<>>, None)}
    \cup {Node("country", <<s>>, None) : s \in SeqsUpTo(BlockChars, MaxBlockLen) \ {<<>>}}
    \cup {Node("country", ss, None) :
            ss \in SeqsUpTo({<<"a">>, <<"-">>, <<" ">>}, 4) \ SeqsUpTo({<<"a">>, <<"-">>, <<" ">>}, 1)}

ParseInit ==
    /\ \/ pc = "page" /\ page \in SeqsUpTo(NodePool, MaxNodes) /\ block_el = NoNode
       \/ pc = "block" /\ block_el \in BlockEls /\ page = <<>>
    /\ mep = <<>> /\ block_out = <<>>
    /\ InitUnusedHarvest /\ InitUnusedMerge

\* parse_mep_profile on a fetched page (lines 127-209)
ParsePage ==
    /\ pc = "page"
    /\ \E mep_id \in MepIdPool : mep' = parse_mep_profile(mep_id, ProfileUrl(mep_id), page)
    /\ pc' = "parsed"
    /\ UNCHANGED <<page, block_el, block_out>>
    /\ UNCHANGED <<harvestVars, mergeVars>>

\* the country/party split on the element the selector found (lines 161-177)
SplitBlock ==
    /\ pc = "block"
    /\ block_out' = ParseCountry(block_el)
    /\ pc' = "split"
    /\ UNCHANGED <<page, block_el, mep>>
    /\ UNCHANGED <<harvestVars, mergeVars>>

ParseNext == ParsePage \/ SplitBlock

ParseSpec == ParseInit /\ [][ParseNext]_vars

\* ------------------------------------------------------------------ apply_meps_overrides.py

(* JSON values of the merge step: a string is a TLA+ string, an object is  *)
(* a function from its keys to its values (the order of the keys inside an *)
(* object is not modelled).  An override entry's value is either an object *)
(* or something else (a string, a number, null, a list), which the code    *)
(* only tells apart by isinstance(override_data, dict).                    *)
EmptyObj == [key \in {} |-> ""]
Obj1(k1, v1) == [key \in {k1} |-> v1]
Obj2(k1, v1, k2, v2) == [key \in {k1, k2} |-> IF key = k1 THEN v1 ELSE v2]

IsDict(v) == v.is_dict
DictValue(d) == [is_dict |-> TRUE, data |-> d]
NotADict == [is_dict |-> FALSE, data |-> EmptyObj]

\* obj.get("id") is truthy: the key is there and its value is not empty
HasTruthyId(obj) == "id" \in DOMAIN obj /\ obj["id"] # ""

\* Overlay with the keys the object already has left as they are
Overlay_BaseWins(obj, data) ==
    [key \in DOMAIN obj \cup DOMAIN data |->
        IF key \in DOMAIN obj THEN obj[key] ELSE data[key]]

\* lines 63-64 and 68-69: dict.update / key-by-key assignment
Overlay(obj, data) ==
    [key \in DOMAIN obj \cup DOMAIN data |->
        IF key \in DOMAIN data THEN data[key] ELSE obj[key]]

\* lines 45-51: the index over base_data, from the index built so far; a
\* later object with the same id replaces the earlier one in the index
RECURSIVE BuildIndex(_, _, _)
BuildIndex(data, pos, idx) ==
    IF pos > Len(data) THEN idx
    ELSE IF HasTruthyId(data[pos])
         THEN BuildIndex(data, pos + 1, DictSet(idx, data[pos]["id"], pos))
         ELSE BuildIndex(data, pos + 1, idx)

BaseObjs ==
    { Obj1("id", "1"),
      Obj2("id", "1", "name", "a"),
      Obj2("id", "2", "name", "a"),
      Obj1("id", ""),
      Obj1("name", "a") }

OverrideKeys == {"1", "2", ""}

OverrideValues ==
    { DictValue(Obj1("name", "b")),
      DictValue(Obj2("id", "2", "usesX", "t")),
      DictValue(EmptyObj),
      NotADict }

\* the dicts json.load can return for the overrides file: distinct keys, in file order
OverrideDicts ==
    {d \in SeqsUpTo(OverrideKeys \X OverrideValues, MaxOverrides) :
        \A a, b \in 1..Len(d) : a # b => d[a][1] # d[b][1]}

\* lines 36-42 passed: both files loaded, a list and a dict
MergeInit ==
    /\ pc = "index"
    /\ base0 \in SeqsUpTo(BaseObjs, MaxBase)
    /\ base_data = base0
    /\ overrides \in OverrideDicts
    /\ index = <<>>
    /\ ov_pos = 0
    /\ out_file = <<>>
    /\ InitUnusedHarvest /\ InitUnusedParse

\* lines 44-51
IndexBase ==
    /\ pc = "index"
    /\ index' = BuildIndex(base_data, 1, <<>>)
    /\ pc' = "apply"
    /\ UNCHANGED <<base_data, base0, overrides, ov_pos, out_file>>
    /\ UNCHANGED <<harvestVars, parseVars>>

\* lines 54-57: an override that is not an object is skipped
OverrideSkip ==
    /\ pc = "apply"
    /\ ov_pos < Len(overrides)
    /\ ~IsDict(overrides[ov_pos + 1][2])
    /\ ov_pos' = ov_pos + 1
    /\ UNCHANGED <<pc, base_data, base0, overrides, index, out_file>>
    /\ UNCHANGED <<harvestVars, parseVars>>

\* lines 59-64: the override is merged onto the indexed object
OverrideExisting ==
    /\ pc = "apply"
    /\ ov_pos < Len(overrides)
    /\ LET mep_id == overrides[ov_pos + 1][1]
           override_data == overrides[ov_pos + 1][2]
       IN /\ IsDict(override_data)
          /\ HasKey(index, mep_id)
          /\ base_data' = [base_data EXCEPT ![Get(index, mep_id)] =
                              Overlay(@, override_data.data)]
    /\ ov_pos' = ov_pos + 1
    /\ UNCHANGED <<pc, base0, overrides, index, out_file>>
    /\ UNCHANGED <<harvestVars, parseVars>>

\* lines 65-71: no indexed object has the id, a stub is appended and indexed
OverrideStub ==
    /\ pc = "apply"
    /\ ov_pos < Len(overrides)
    /\ LET mep_id == overrides[ov_pos + 1][1]
           override_data == overrides[ov_pos + 1][2]
       IN /\ IsDict(override_data)
          /\ ~HasKey(index, mep_id)
          /\ base_data' = Append(base_data, Overlay(Obj1("id", mep_id), override_data.data))
          /\ index' = DictSet(index, mep_id, Len(base_data) + 1)
    /\ ov_pos' = ov_pos + 1
    /\ UNCHANGED <<pc, base0, overrides, out_file>>
    /\ UNCHANGED <<harvestVars, parseVars>>

\* lines 73-78
WriteMerged ==
    /\ pc = "apply"
    /\ ov_pos = Len(overrides)
    /\ out_file' = base_data
    /\ pc' = "merged"
    /\ UNCHANGED <<base_data, base0, overrides, index, ov_pos>>
    /\ UNCHANGED <<harvestVars, parseVars>>

MergeNext ==
    \/ IndexBase
    \/ OverrideSkip
    \/ OverrideExisting
    \/ OverrideStub
    \/ WriteMerged

MergeSpec == MergeInit /\ [][MergeNext]_vars

\* ------------------------------------------------------------------ properties of the harvest run

IsProfileGet(e) == e.op = "GET" /\ e.arg # FULL_LIST_URL
IsProfileError(e) == e.op = "ERROR" /\ e.arg # FULL_LIST_URL
ProfileGets == SelectSeq(trace, IsProfileGet)
ProfileErrors == SelectSeq(trace, IsProfileError)
RosterFailed == \E j \in 1..Len(trace) : trace[j] = Ev("ERROR", FULL_LIST_URL, 0)
WriterReached == \E j \in 1..Len(trace) : trace[j].op \in {"WARN_empty", "INFO_wrote"}

\* iterations in which parse_mep_profile returned None
FetchFailures == i - Len(fetched)

\* a run without filter that is past its loop and had exactly one failed profile fetch
OneFailureRun == pc \in {"write", "done"} /\ ~only_with_x /\ FetchFailures = 1

\* the skip counts the run reports: the values of the events that carry one.
\* scrape_all_meps (212-234) keeps no count of skipped identifiers, returns
\* the record list alone and prints only the found, processed and collected
\* counts, so no action appends an event with this op.
SkipCounterReports == {trace[j].n : j \in {h \in 1..Len(trace) : trace[h].op = "INFO_skipped"}}

\* what C1 says of the records and of the run going on
OneFailureOutcome ==
    /\ Len(results) = Len(meps_meta) - 1
    /\ i = Len(meps_meta)
    /\ Len(ProfileGets) = Len(meps_meta)
    /\ Len(ProfileErrors) = 1
    /\ \A j \in 1..Len(results) : results[j].profile_url # ProfileErrors[1].arg
    /\ \A j \in 1..Len(meps_meta) :
          meps_meta[j][2] # ProfileErrors[1].arg
             => Cardinality({r \in 1..Len(results) : results[r].mep_id = meps_meta[j][1]}) = 1

\* C1 as stated: in a run without filter over N identifiers with exactly one
\* failed profile fetch, the output has N-1 records, one per fetched identifier
\* and none for the failed one, the run reports a skip counter of 1, and goes
\* through all identifiers.
C1_SkipCounterIsOne ==
    OneFailureRun => OneFailureOutcome /\ SkipCounterReports = {1}

\* C2: a roster page that cannot be fetched ends the run in discovery: no
\* profile page is fetched, no record is assembled, the writer is not reached
\* and the file is untouched; and no other fetch failure ends a run.
C2_RosterFailureIsFatal ==
    /\ RosterFailed =>
          /\ pc = "fatal"
          /\ ~ENABLED Next
          /\ ProfileGets = <<>>
          /\ fetched = <<>> /\ results = <<>> /\ meps_meta = <<>>
          /\ ~WriterReached
          /\ file \in {NoFile, OldFile}
    /\ pc = "fatal" => RosterFailed /\ ProfileErrors = <<>>

C2_Witness == pc = "fatal" /\ RosterFailed /\ file = OldFile

\* C3 as stated: between any two fetches of a run there is a rate-limiting
\* delay, whether the earlier fetch succeeded or failed.
C3_DelayAfterEveryFetch ==
    \A a \in 1..Len(trace) : \A b \in (a + 1)..Len(trace) :
        trace[a].op = "GET" /\ trace[b].op = "GET"
           => \E c \in (a + 1)..(b - 1) : trace[c].op = "sleep"

\* the identifier a roster link carries, "" when it carries none
LinkId(href) == SearchMepId(href)
RosterIds == [j \in 1..Len(roster) |-> LinkId(roster[j])]

\* the place of the first link among ids that carries id
FirstLink(ids, id) ==
    CHOOSE j \in 1..Len(ids) : ids[j] = id /\ \A h \in 1..(j - 1) : ids[h] # id

Discovered == pc \in {"loop", "write", "done"}

ExampleRoster ==
    << MEPS_EN \o <<"1", "0", "0">>,
       MEPS_EN \o <<"1", "0", "0", "/", "J", "A", "N", "E", "_", "D", "O", "E", "/", "h", "o", "m", "e">>,
       MEPS_EN \o <<"2", "0", "0">> >>

\* C4: the discovery result maps each identifier once: every key is a
\* non-empty string of digits taken from a roster link with the member path,
\* every such link's identifier is a key, links with the same identifier give
\* one entry, every value is the canonical address of its key, and the roster
\* {100, 100, 200} gives exactly {100: addr100, 200: addr200}.
C4_DiscoveryDedup ==
    Discovered =>
      LET ids == RosterIds
      IN /\ \A a, b \in 1..Len(meps_meta) : a # b => meps_meta[a][1] # meps_meta[b][1]
         /\ \A a \in 1..Len(meps_meta) :
               /\ meps_meta[a][1] # <<>>
               /\ \A c \in 1..Len(meps_meta[a][1]) : meps_meta[a][1][c] \in Digits
               /\ \E j \in 1..Len(ids) : ids[j] = meps_meta[a][1]
               /\ meps_meta[a][2] = BASE_URL \o MEPS_EN \o meps_meta[a][1]
         /\ \A j \in 1..Len(ids) :
               ids[j] # <<>> => \E a \in 1..Len(meps_meta) : meps_meta[a][1] = ids[j]
         /\ roster = ExampleRoster =>
               meps_meta = << << <<"1", "0", "0">>, BASE_URL \o MEPS_EN \o <<"1", "0", "0">> >>,
                              << <<"2", "0", "0">>, BASE_URL \o MEPS_EN \o <<"2", "0", "0">> >> >>

C4_Witness == pc = "loop" /\ roster = ExampleRoster /\ Len(meps_meta) = 2

\* positions in discovery order of the records of recs
InDiscoveryOrder(recs) ==
    \A a, b \in 1..Len(recs) :
        a < b => \E x, y \in 1..Len(meps_meta) :
                    /\ x < y
                    /\ meps_meta[x][1] = recs[a].mep_id
                    /\ meps_meta[y][1] = recs[b].mep_id

\* C5: profiles are fetched, and records are output, in discovery order, an
\* identifier standing where its first roster link stands; failures and
\* filtered records leave the order of the others as it is.
C5_DiscoveryOrder ==
    Discovered =>
      LET ids == RosterIds
      IN /\ \A a, b \in 1..Len(meps_meta) :
               a < b => FirstLink(ids, meps_meta[a][1]) < FirstLink(ids, meps_meta[b][1])
         /\ ProfileGets = [j \in 1..i |-> Ev("GET", meps_meta[j][2], 0)]
         /\ InDiscoveryOrder(fetched)
         /\ InDiscoveryOrder(results)
         /\ file.header = FIELDNAMES =>
               file.rows = [j \in 1..Len(results) |-> CsvRow(results[j])]

C5_Witness ==
    /\ pc = "done" /\ Len(roster) = 3
    /\ LinkId(roster[1]) = LinkId(roster[3]) /\ LinkId(roster[1]) # LinkId(roster[2])
    /\ Len(meps_meta) = 2 /\ Len(results) = 2
    /\ results[1].mep_id = LinkId(roster[1])
    /\ file.header = FIELDNAMES

\* the inclusion test of the filter, on a record
HasSocialLink(m) == m.x_url # None /\ Len(m.x_url) > 0
Included(m) == only_with_x => HasSocialLink(m)

\* C8: with the filter on the output is exactly the fetched records that
\* have a non-empty social_url, in order; with it off the output is every
\* fetched record; whether a record is included depends on that record alone.
C8_FilterExact ==
    /\ results = SelectSeq(fetched, Included)
    /\ only_with_x => \A j \in 1..Len(results) : HasSocialLink(results[j])
    /\ ~only_with_x => results = fetched

C8_Witness ==
    /\ pc = "done" /\ only_with_x
    /\ Len(fetched) = 3 /\ Len(results) = 1
    /\ \E j \in 1..3 : fetched[j].x_url = <<>>
    /\ \E j \in 1..3 : fetched[j].x_url = None

\* C9: write_csv with no record prints a warning, ends normally and leaves
\* the file as it is, there or not; with records it writes the file with the
\* header and one row per record.
C9_WriterFrame ==
    [][pc = "write" =>
          /\ pc' = "done"
          /\ results = <<>> =>
                /\ file' = file
                /\ trace' = Append(trace, Ev("WARN_empty", <<>>, 0))
          /\ results # <<>> =>
                /\ file'.exists
                /\ file'.header = FIELDNAMES
                /\ Len(file'.rows) = Len(results)
                /\ \A j \in 1..Len(results) : file'.rows[j][1] = results[j].mep_id]_vars

C9_Witness ==
    /\ pc = "done" /\ results = <<>> /\ fetched # <<>>
    /\ file = OldFile
    /\ trace[Len(trace)] = Ev("WARN_empty", <<>>, 0)

\* ------------------------------------------------------------------ properties of parse_mep_profile

\* the stripped text of the first h1, "" when the page has none
PrimaryHeading ==
    LET hs == {j \in 1..Len(page) : page[j].kind = "h1"}
    IN IF hs = {} THEN <<>>
       ELSE GetText(page[CHOOSE j \in hs : \A h \in hs : j <= h], <<>>, TRUE)

\* a text node the scan accepts: two words or more, not all upper case
MultiWordNotUpper(t) == Len(SplitWS(Strip(t))) >= 2 /\ ~IsUpper(Strip(t))

\* the text nodes the scan accepts, "" when the marker phrase is not on the page
ScanHits ==
    IF Contains(SoupText(page), GROUP_OF_THE)
    THEN SelectSeq(FindAllStrings(page), MultiWordNotUpper) ELSE <<>>

OptionalFields == {"email", "x_url", "x_handle", "political_group", "country",
                   "national_party", "country_and_national_party"}

\* C6: the name of a record is never empty: it is the primary heading when
\* that is not empty, else the first text the scan accepts when the page
\* holds the group marker phrase, else "MEP-<id>"; a page with none of the
\* markers gives a record with every optional field absent and that name.
C6_NameNeverEmpty ==
    pc = "parsed" =>
      /\ mep.name # <<>> /\ mep.name # None
      /\ PrimaryHeading # <<>> => mep.name = PrimaryHeading
      /\ PrimaryHeading = <<>> /\ ScanHits # <<>> => mep.name = Strip(ScanHits[1])
      /\ PrimaryHeading = <<>> /\ ScanHits = <<>> => mep.name = MEP_DASH \o mep.mep_id
      /\ (\A j \in 1..Len(page) : page[j].kind = "other") /\ ScanHits = <<>> =>
            /\ mep.name = MEP_DASH \o mep.mep_id
            /\ \A f \in OptionalFields : mep[f] = None

C6_Witness ==
    /\ pc = "parsed"
    /\ Len(page) = 2 /\ \A j \in 1..Len(page) : page[j].kind = "other"
    /\ mep.name = <<"M", "E", "P", "-", "7">>
    /\ \A f \in OptionalFields : mep[f] = None

\* the whitespace-normalized block
Normalized(raw) == Join(<<" ">>, SplitWS(raw))

\* C7: a non-empty block whose normalized text holds " - " gives the trimmed
\* text left of the first " - " as country and the trimmed text right of it
\* as national_party, both non-empty; one without " - " gives the normalized
\* block as country and no national_party; an absent element gives no
\* country, no national_party and no raw block.
C7_CountrySplit ==
    pc = "split" =>
      /\ block_el = NoNode =>
            block_out = [country |-> None, national_party |-> None, raw |-> None]
      /\ block_el # NoNode => block_out.raw = GetText(block_el, <<" ">>, TRUE)
      /\ block_out.raw # None /\ block_out.raw # <<>> =>
            LET norm == Normalized(block_out.raw)
                firsts == {j \in 0..(Len(norm) - 3) :
                             /\ SubSeq(norm, j + 1, j + 3) = SEPARATOR
                             /\ \A h \in 0..(j - 1) : SubSeq(norm, h + 1, h + 3) # SEPARATOR}
            IN IF firsts # {}
               THEN \A j \in firsts :
                      /\ block_out.country = Strip(SubSeq(norm, 1, j))
                      /\ block_out.national_party = Strip(SubSeq(norm, j + 4, Len(norm)))
                      /\ block_out.country # <<>>
                      /\ block_out.national_party # <<>>
               ELSE /\ block_out.country = norm
                    /\ block_out.national_party = None

C7_Witness ==
    /\ pc = "split"
    /\ block_out.raw = <<"a", " ", "-", " ", "-", " ", "a">>
    /\ block_out.country = <<"a">>
    /\ block_out.national_party = <<"-", " ", "a">>

\* ------------------------------------------------------------------ properties of the merge

OvKey(e) == e[1]
OvData(e) == e[2].data
IsObjectEntry(e) == e[2].is_dict

\* rec is old with every key of data set to data's value and the rest as it was
MergedOnto(rec, old, data) ==
    /\ DOMAIN rec = DOMAIN old \cup DOMAIN data
    /\ \A key \in DOMAIN data : rec[key] = data[key]
    /\ \A key \in DOMAIN old \ DOMAIN data : rec[key] = old[key]

\* the id is the id of a record of the base list as loaded
IdInBase(id) == \E j \in 1..Len(base0) : "id" \in DOMAIN base0[j] /\ base0[j]["id"] = id

\* the id is the non-empty id of a record of the base list as loaded
IdIndexed(id) == id # "" /\ IdInBase(id)

\* the last record of the base list with that id
LastWithId(id) ==
    CHOOSE j \in 1..Len(base0) :
        /\ "id" \in DOMAIN base0[j] /\ base0[j]["id"] = id
        /\ \A h \in (j + 1)..Len(base0) : ~("id" \in DOMAIN base0[h] /\ base0[h]["id"] = id)

IsNewIdEntry(e) == ~IdInBase(OvKey(e))
IsStubEntry(e) == IsObjectEntry(e) /\ ~IdIndexed(OvKey(e))
StubEntries == SelectSeq(overrides, IsStubEntry)

\* C10 as stated: after the merge, an object-valued override whose id is in
\* the base list is merged onto the record with that id and adds no record;
\* one whose id is not gives exactly one appended stub of the id plus the
\* override keys; records without override entry are unchanged; the final
\* count is the base count plus the number of override ids not in the base.
C10_CountsEveryUnknownId ==
    pc = "merged" =>
      /\ \A a \in 1..Len(overrides) :
            IsObjectEntry(overrides[a]) =>
               IF IdInBase(OvKey(overrides[a]))
               THEN \A j \in 1..Len(base0) :
                       "id" \in DOMAIN base0[j] /\ base0[j]["id"] = OvKey(overrides[a])
                          => MergedOnto(base_data[j], base0[j], OvData(overrides[a]))
               ELSE Cardinality({j \in (Len(base0) + 1)..Len(base_data) :
                       MergedOnto(base_data[j], Obj1("id", OvKey(overrides[a])),
                                  OvData(overrides[a]))}) = 1
      /\ \A j \in 1..Len(base0) :
            (\A a \in 1..Len(overrides) :
                ~("id" \in DOMAIN base0[j] /\ base0[j]["id"] = OvKey(overrides[a])))
               => base_data[j] = base0[j]
      /\ Len(base_data) = Len(base0) + Len(SelectSeq(overrides, IsNewIdEntry))

\* C10 amended: after the merge, an object-valued override whose id is the
\* non-empty id of a base record is merged onto the last base record with
\* that id and adds no record; any other object-valued override gives one
\* appended stub, in override order, of the id plus the override keys (an
\* override key "id" replacing the id); every other base record is unchanged;
\* the final count is the base count plus the number of object-valued
\* overrides whose id is not the non-empty id of a base record; the merged
\* list is what is written.
C10_OverrideMerge ==
    pc = "merged" =>
      /\ \A j \in 1..Len(base0) :
            LET hits == {a \in 1..Len(overrides) :
                           /\ IsObjectEntry(overrides[a])
                           /\ IdIndexed(OvKey(overrides[a]))
                           /\ "id" \in DOMAIN base0[j]
                           /\ base0[j]["id"] = OvKey(overrides[a])
                           /\ j = LastWithId(OvKey(overrides[a]))}
            IN IF hits = {} THEN base_data[j] = base0[j]
               ELSE \A a \in hits : MergedOnto(base_data[j], base0[j], OvData(overrides[a]))
      /\ Len(base_data) = Len(base0) + Len(StubEntries)
      /\ \A r \in 1..Len(StubEntries) :
            MergedOnto(base_data[Len(base0) + r], Obj1("id", OvKey(StubEntries[r])),
                       OvData(StubEntries[r]))
      /\ out_file = base_data

C10_Witness ==
    /\ pc = "merged"
    /\ base0 = << Obj2("id", "1", "name", "a"), Obj1("name", "a") >>
    /\ overrides = << <<"1", DictValue(Obj1("name", "b"))>>,
                      <<"2", DictValue(Obj1("name", "b"))>> >>
    /\ base_data = << Obj2("id", "1", "name", "b"), Obj1("name", "a"),
                      Obj2("id", "2", "name", "b") >>

====
